---- MODULE Spec2Model ----
(***************************************************************************)
(* A model of the Cursor admin dashboard's data pipeline:                  *)
(*   backend/data_processor.py  DataProcessor   (normalize, derive, rank)  *)
(*   backend/data_service.py    CursorDataService (one refresh cycle)      *)
(*   backend/cursor_api.py      CursorAPIClient (fetches, mock fallback)   *)
(*   backend/storage.py         DataStorage     (users/usage/cache files)  *)
(*   dashboard.py, cli.py       the two entry points                       *)
(*                                                                         *)
(* Numbers.  Floats are modelled by exact rationals [num, den]; a float    *)
(* that pandas leaves as NaN or +inf is [num |-> 0, den |-> 0] (NaN) or    *)
(* [num |-> 1, den |-> 0] (inf).  activity_score is kept in hundredths.    *)
(* A DataFrame is [isNone, rows]: rows is the sequence of its rows in      *)
(* index order; pd.DataFrame() is the frame with no rows.                  *)
(***************************************************************************)
EXTENDS Integers, Sequences, FiniteSets, TLC

VARIABLES
    config,     \* Config: [CURSOR_API_KEY |-> TRUE iff the variable is set]
    svc,        \* the process's CursorDataService: api_client, last_refresh, users_df,
                \* usage_df, analytics_data
    dp,         \* its DataProcessor: users_df, usage_df
    storage,    \* DataStorage's files: users_file, usage_file, and whether cache.json is valid
    api,        \* what the API client did in the last entry-point call
    result,     \* the last entry-point call and what it returned
    cycle,      \* the raw batch handed to the last refresh cycle
    dash,       \* the dashboard: st.session_state, its DataProcessor, its api_client
    now,        \* the clock: the number of entry-point calls started so far
    inp,        \* input of the function under study (pure-function specifications)
    out,        \* its output
    pc          \* position of the run

vars == <<config, svc, dp, storage, api, result, cycle, dash, now, inp, out, pc>>

----------------------------------------------------------------------------
(* Encodings of Python values that are not numbers. *)

\* None as the value of a metric (JSON null): any arithmetic or comparison on it raises TypeError
PyNone == -1
\* the key is absent from the dict: dict.get(key, default) answers default
Missing == -2

\* the largest batch of users a run normalizes
MaxUsers == 3

Get(v, default) == IF v = Missing THEN default ELSE v

Rat(n, d) == [num |-> n, den |-> d]
NaN == Rat(0, 0)
Inf == Rat(1, 0)
IsNaN(q) == q.den = 0 /\ q.num = 0
IsInf(q) == q.den = 0 /\ q.num # 0
IsFinite(q) == q.den # 0
\* equality of two finite floats
RatEq(p, q) == p.num * q.den = q.num * p.den
\* p <= q for finite floats with positive denominators
RatLe(p, q) == p.num * q.den <= q.num * p.den

\* Python 3 true division a / b of two non-negative ints (b = 0 raises, so callers guard)
Div(a, b) == Rat(a, b)

DFNone == [isNone |-> TRUE, rows |-> << >>]
DataFrame(rows) == [isNone |-> FALSE, rows |-> rows]
EmptyDF == DataFrame(<< >>)
\* DataFrame.empty
IsEmpty(df) == Len(df.rows) = 0
\* len(df)
DFLen(df) == Len(df.rows)

EmptyDict == [kind |-> "empty"]
NoneDict == [kind |-> "None"]

RECURSIVE SumSeq(_)
SumSeq(s) == IF s = << >> THEN 0 ELSE Head(s) + SumSeq(Tail(s))

\* the column col of a sequence of rows
Column(rows, col) == [i \in 1..Len(rows) |-> rows[i][col]]

----------------------------------------------------------------------------
(* DataProcessor._calculate_activity_score, data_processor.py:595-621.     *)
(* 100 * (0.2*min(s/100,1) + 0.3*min(r/1000,1) + 0.2*min(t/100000,1)       *)
(*        + 0.2*min(d/30,1) + 0.1*min(a/300,1)), rounded to 2 decimals.    *)
(* In hundredths the sum is (3000s' + 450r' + 3t' + 10000d' + 500a')/150   *)
(* with each input capped.                                                 *)

Min(a, b) == IF a <= b THEN a ELSE b

\* round(x) of Python 3 on the rational n/d (d > 0): to nearest, ties to even
RoundHalfEven(n, d) ==
    LET q == n \div d
        r == n % d
    IN  IF 2 * r < d THEN q
        ELSE IF 2 * r > d THEN q + 1
        ELSE IF q % 2 = 0 THEN q ELSE q + 1

CapSessions == 100
CapRequests == 1000
CapTokens == 100000
CapDays == 30
CapDuration == 300

\* the score without the min(..., 1.0) of lines 607-611
CalculateActivityScoreUncapped(row) ==
    RoundHalfEven(
        3000 * row.total_sessions + 450 * row.total_requests + 3 * row.total_tokens
        + 10000 * row.unique_days_active + 500 * row.avg_session_duration,
        150)

CalculateActivityScore(row) ==
    RoundHalfEven(
        3000 * Min(row.total_sessions, CapSessions)
        + 450 * Min(row.total_requests, CapRequests)
        + 3 * Min(row.total_tokens, CapTokens)
        + 10000 * Min(row.unique_days_active, CapDays)
        + 500 * Min(row.avg_session_duration, CapDuration),
        150)

----------------------------------------------------------------------------
(* Series.rank(pct=True) of pandas, method='average' (the default): the    *)
(* values are sorted, every value gets the mean of the 1-based positions   *)
(* its group of equal values occupies in the sorted order, and pct=True    *)
(* divides by the number of values.                                        *)

RECURSIVE InsertSorted(_, _)
InsertSorted(x, s) ==
    IF s = << >> THEN <<x>>
    ELSE IF x <= Head(s) THEN <<x>> \o s
    ELSE <<Head(s)>> \o InsertSorted(x, Tail(s))

RECURSIVE SortAsc(_)
SortAsc(s) == IF s = << >> THEN << >> ELSE InsertSorted(Head(s), SortAsc(Tail(s)))

\* the positions the value v occupies in the sorted sequence
PositionsOf(sorted, v) == {k \in 1..Len(sorted) : sorted[k] = v}

RECURSIVE SumSet(_)
SumSet(S) == IF S = {} THEN 0 ELSE LET x == CHOOSE y \in S : TRUE IN x + SumSet(S \ {x})

FirstOf(pos) == Rat(CHOOSE k \in pos : \A m \in pos : k <= m, 1)
AverageOf(pos) == Rat(SumSet(pos), Cardinality(pos))

\* rank(method='min'): every value of a group gets the first position of the group
RankMin(vals, i) == FirstOf(PositionsOf(SortAsc(vals), vals[i]))

\* the average rank of vals[i] among vals, as the float sum_ranks / dups
RankAverage(vals, i) == AverageOf(PositionsOf(SortAsc(vals), vals[i]))

\* rank r of count values as a percentage, from the zero-based rank: (r - 1) / count * 100
PctZeroBased(r, count) == Rat(100 * (r.num - r.den), r.den * count)
\* rank r of count values as a percentage: r / count * 100
Pct(r, count) == Rat(100 * r.num, r.den * count)

\* a percentile from the zero-based rank
PercentileRankZeroBased(vals, i) == PctZeroBased(RankAverage(vals, i), Len(vals))

\* df[col].rank(pct=True) * 100, data_processor.py:122
PercentileRank(vals, i) == Pct(RankAverage(vals, i), Len(vals))

----------------------------------------------------------------------------
(* DataProcessor.process_usage_data, data_processor.py:76-129.             *)
(* usage_data is a dict user_id -> data; a dict keeps insertion order, so  *)
(* it is the sequence of its items [user_id, data].  data is one of        *)
(*   [kind |-> "falsy"]      None or {}: skipped (line 82)                 *)
(*   [kind |-> "nometrics"]  a dict without 'metrics': skipped (line 82)   *)
(*   [kind |-> "metrics", metrics |-> m]                                   *)
(* m carries the five metrics and feature_chat, the 'chat' entry of its    *)
(* feature_usage dict (Missing when the dict has no such entry); the other *)
(* features are treated alike by the code.                                 *)

MetricKeys ==
    {"total_sessions", "total_requests", "total_tokens", "unique_days_active", "avg_session_duration"}

HasMetrics(data) == data.kind = "metrics"

\* lines 88-95: the flattened metrics, metrics.get(key, 0)
FlatMetrics(m) == [k \in MetricKeys |-> Get(m[k], 0)]

\* lines 103-111 raise TypeError as soon as one metric is None:
\* None > 0 (lines 105, 109) and None / 100 (lines 607-611)
RowRaises(m) == \E k \in MetricKeys : FlatMetrics(m)[k] = PyNone

\* requests_per_session without the guard of line 105
RequestsPerSessionUnguarded(f) == Div(f.total_requests, f.total_sessions)

\* lines 103-106
RequestsPerSession(f) ==
    IF f.total_sessions > 0 THEN Div(f.total_requests, f.total_sessions) ELSE Rat(0, 1)

\* lines 107-110
TokensPerRequest(f) ==
    IF f.total_requests > 0 THEN Div(f.total_tokens, f.total_requests) ELSE Rat(0, 1)

\* a row that keeps total_tokens in tens of tokens
UsageRowTokensInTens(user_id, m) ==
    LET f == FlatMetrics(m)
    IN  [user_id |-> user_id,
         total_sessions |-> f.total_sessions,
         total_requests |-> f.total_requests,
         total_tokens |-> f.total_tokens \div 10,
         unique_days_active |-> f.unique_days_active,
         avg_session_duration |-> f.avg_session_duration,
         feature_chat |-> m.feature_chat,
         requests_per_session |-> RequestsPerSession(f),
         tokens_per_request |-> TokensPerRequest(f),
         activity_score |-> CalculateActivityScore(f)]

\* lines 88-113: one row of processed_data (a row without the feature has NaN in the
\* feature_chat column of the frame, Missing here)
UsageRow(user_id, m) ==
    LET f == FlatMetrics(m)
    IN  [user_id |-> user_id,
         total_sessions |-> f.total_sessions,
         total_requests |-> f.total_requests,
         total_tokens |-> f.total_tokens,
         unique_days_active |-> f.unique_days_active,
         avg_session_duration |-> f.avg_session_duration,
         feature_chat |-> m.feature_chat,
         requests_per_session |-> RequestsPerSession(f),
         tokens_per_request |-> TokensPerRequest(f),
         activity_score |-> CalculateActivityScore(f)]

\* lines 81-83: the items the loop does not skip
Kept(usage_data) == SelectSeq(usage_data, LAMBDA item : HasMetrics(item.data))

\* lines 79-113: processed_data, when no row raises
ProcessedData(usage_data) ==
    LET kept == Kept(usage_data)
    IN  [i \in 1..Len(kept) |-> UsageRow(kept[i].user_id, kept[i].data.metrics)]

\* lines 117-122: the percentile columns, ranked over the rows of this frame
AddPercentiles(rows) ==
    [i \in 1..Len(rows) |->
        [user_id |-> rows[i].user_id,
         total_sessions |-> rows[i].total_sessions,
         total_requests |-> rows[i].total_requests,
         total_tokens |-> rows[i].total_tokens,
         unique_days_active |-> rows[i].unique_days_active,
         avg_session_duration |-> rows[i].avg_session_duration,
         feature_chat |-> rows[i].feature_chat,
         requests_per_session |-> rows[i].requests_per_session,
         tokens_per_request |-> rows[i].tokens_per_request,
         activity_score |-> rows[i].activity_score,
         total_sessions_percentile |-> PercentileRank(Column(rows, "total_sessions"), i),
         total_requests_percentile |-> PercentileRank(Column(rows, "total_requests"), i),
         total_tokens_percentile |-> PercentileRank(Column(rows, "total_tokens"), i),
         activity_score_percentile |-> PercentileRank(Column(rows, "activity_score"), i)]]

\* whether the try block of lines 78-125 raises: the first bad row ends the loop
UsageRaises(usage_data) ==
    \E i \in 1..Len(usage_data) :
        HasMetrics(usage_data[i].data) /\ RowRaises(usage_data[i].data.metrics)

\* lines 124-125: self.usage_df = df; return df
Assigned(df) == [ret |-> df, usage_df |-> df, raised |-> FALSE]

\* The call self.process_usage_data(usage_data) on a processor whose usage_df is held:
\* ret is what it returns, usage_df what the processor holds afterwards (line 124 is
\* skipped when the try block raised; line 129 returns a new empty frame).
ProcessUsageData(usage_data, held) ==
    IF UsageRaises(usage_data)
    THEN [ret |-> EmptyDF, usage_df |-> held, raised |-> TRUE]
    ELSE Assigned(DataFrame(AddPercentiles(ProcessedData(usage_data))))

----------------------------------------------------------------------------
(* Aggregations over the processor's usage_df.                             *)

\* Series.mean(): NaN on an empty series
Mean(vals) == IF Len(vals) = 0 THEN NaN ELSE Rat(SumSeq(vals), Len(vals))

\* Series.median(): the middle value, or the mean of the two middle values
Median(vals) ==
    LET sorted == SortAsc(vals)
        n == Len(vals)
    IN  IF n = 0 THEN NaN
        ELSE IF n % 2 = 1 THEN Rat(sorted[(n + 1) \div 2], 1)
        ELSE Rat(sorted[n \div 2] + sorted[n \div 2 + 1], 2)

Segments == <<"Low Activity", "Medium Activity", "High Activity", "Power Users">>

\* pd.cut with right=False: bins closed on the left, [0, 25), [25, 50), [50, 75), [75, 100)
SegmentOfLeftClosed(p) ==
    IF p.num < 0 THEN 0
    ELSE IF p.num < 25 * p.den THEN 1
    ELSE IF p.num < 50 * p.den THEN 2
    ELSE IF p.num < 75 * p.den THEN 3
    ELSE IF p.num < 100 * p.den THEN 4
    ELSE 0

\* pd.cut(p, bins=[0, 25, 50, 75, 100], include_lowest=True), data_processor.py:519-524:
\* the index of the bin of the percentile p, 0 when p is in no bin (NaN segment)
SegmentOf(p) ==
    IF p.num < 0 THEN 0
    ELSE IF p.num <= 25 * p.den THEN 1
    ELSE IF p.num <= 50 * p.den THEN 2
    ELSE IF p.num <= 75 * p.den THEN 3
    ELSE IF p.num <= 100 * p.den THEN 4
    ELSE 0

\* lines 529-538: the entry of segment k (without its top_features)
SegmentEntry(usage_df, k) ==
    LET segment_data ==
            SelectSeq(usage_df.rows,
                      LAMBDA row : SegmentOf(row.activity_score_percentile) = k)
    IN  [segment |-> Segments[k],
         count |-> Len(segment_data),
         percentage |-> Rat(Len(segment_data) * 100, DFLen(usage_df)),
         avg_sessions |-> Mean(Column(segment_data, "total_sessions")),
         avg_requests |-> Mean(Column(segment_data, "total_requests")),
         avg_tokens |-> Mean(Column(segment_data, "total_tokens"))]

\* a segmentation that reports the segments that have members only
GetUserSegmentationNonEmpty(usage_df) ==
    IF usage_df.isNone \/ IsEmpty(usage_df) THEN EmptyDict
    ELSE [kind |-> "segmentation",
          segments |->
            SelectSeq([k \in 1..Len(Segments) |-> SegmentEntry(usage_df, k)],
                      LAMBDA e : e.count > 0)]

\* DataProcessor.get_user_segmentation, data_processor.py:510-540: one entry per
\* category of the segment column (line 528), in the order of the labels
GetUserSegmentation(usage_df) ==
    IF usage_df.isNone \/ IsEmpty(usage_df) THEN EmptyDict
    ELSE [kind |-> "segmentation",
          segments |-> [k \in 1..Len(Segments) |-> SegmentEntry(usage_df, k)]]

\* DataProcessor.analyze_feature_usage, data_processor.py:458-508: {} without usage
\* rows and {} without feature_ columns (lines 460-466); sums skip NaN and NaN > 0
\* is false
AnalyzeFeatureUsage(usage_df) ==
    IF usage_df.isNone \/ IsEmpty(usage_df) THEN EmptyDict
    ELSE IF \A i \in 1..DFLen(usage_df) : usage_df.rows[i].feature_chat = Missing
    THEN EmptyDict
    ELSE LET active_users == SelectSeq(usage_df.rows, LAMBDA row : row.feature_chat > 0)
             total == SumSeq(Column(active_users, "feature_chat"))
         IN  [kind |-> "features",
              total_usage |-> total,
              adoption_rate |-> Rat(Len(active_users) * 100, DFLen(usage_df)),
              avg_usage_per_active_user |->
                IF Len(active_users) > 0 THEN Rat(total, Len(active_users)) ELSE Rat(0, 1)]

\* DataProcessor.export_summary_stats, data_processor.py:634-652
ExportSummaryStats(usage_df) ==
    IF usage_df.isNone \/ IsEmpty(usage_df) THEN EmptyDict
    ELSE [kind |-> "stats",
          total_users |-> DFLen(usage_df),
          total_sessions |-> SumSeq(Column(usage_df.rows, "total_sessions")),
          total_requests |-> SumSeq(Column(usage_df.rows, "total_requests")),
          total_tokens |-> SumSeq(Column(usage_df.rows, "total_tokens")),
          avg_sessions_per_user |-> Mean(Column(usage_df.rows, "total_sessions")),
          avg_requests_per_user |-> Mean(Column(usage_df.rows, "total_requests")),
          avg_tokens_per_user |-> Mean(Column(usage_df.rows, "total_tokens")),
          median_activity_score |-> Median(Column(usage_df.rows, "activity_score")),
          feature_analysis |-> AnalyzeFeatureUsage(usage_df),
          user_segmentation |-> GetUserSegmentation(usage_df)]

\* rows sorted by col, largest first, equal values in their original order
RECURSIVE InsertDesc(_, _, _)
InsertDesc(row, s, col) ==
    IF s = << >> THEN <<row>>
    ELSE IF row[col] >= Head(s)[col] THEN <<row>> \o s
    ELSE <<Head(s)>> \o InsertDesc(row, Tail(s), col)

RECURSIVE SortDesc(_, _)
SortDesc(rows, col) ==
    IF rows = << >> THEN << >>
    ELSE InsertDesc(Head(rows), SortDesc(Tail(rows), col), col)

\* nlargest with keep='last': among equal values the later rows come first
NLargestKeepLast(rows, n, col) ==
    SubSeq(SortDesc([i \in 1..Len(rows) |-> rows[Len(rows) + 1 - i]], col),
           1, Min(n, Len(rows)))

\* DataFrame.nlargest(n, col), keep='first'
NLargest(rows, n, col) == SubSeq(SortDesc(rows, col), 1, Min(n, Len(rows)))

\* DataProcessor.get_top_users, data_processor.py:410-430: the rows [user_id, metric];
\* the left join with users_df (lines 422-428) adds name and email and keeps the rows
GetTopUsers(usage_df, metric, top_n) ==
    IF usage_df.isNone \/ IsEmpty(usage_df) THEN EmptyDF
    ELSE LET top == NLargest(usage_df.rows, top_n, metric)
         IN  DataFrame([i \in 1..Len(top) |->
                            [user_id |-> top[i].user_id, value |-> top[i][metric]]])

\* usage_df['total_requests'].sum() if usage_df is not None else 0, lines 551 and 565:
\* a frame without rows is pd.DataFrame(), which has no column: KeyError
TotalRequestsRaises(usage_df) == ~usage_df.isNone /\ IsEmpty(usage_df)
TotalRequestsOrZero(usage_df) ==
    IF usage_df.isNone THEN 0 ELSE SumSeq(Column(usage_df.rows, "total_requests"))
LenOrZero(df) == IF df.isNone THEN 0 ELSE DFLen(df)

\* DataProcessor.calculate_growth_metrics, data_processor.py:542-582.
\* previous_data is NoneDict, or [kind |-> "prev", total_users, total_requests].
\* No try block: an exception leaves the method.
CalculateGrowthMetrics(users_df, usage_df, previous_data) ==
    IF TotalRequestsRaises(usage_df) THEN [raised |-> TRUE, value |-> EmptyDict]
    ELSE IF previous_data.kind = "None"
    THEN [raised |-> FALSE,
          value |-> [kind |-> "baseline",
                     total_users |-> LenOrZero(users_df),
                     active_users |-> LenOrZero(usage_df),
                     total_requests |-> TotalRequestsOrZero(usage_df),
                     growth_rate |-> 0,
                     user_retention |-> 0]]
    ELSE LET current_users == LenOrZero(users_df)
             previous_users == previous_data.total_users
             current_requests == TotalRequestsOrZero(usage_df)
             previous_requests == previous_data.total_requests
         IN  [raised |-> FALSE,
              value |-> [kind |-> "growth",
                         user_growth_rate |->
                            IF previous_users > 0
                            THEN Rat((current_users - previous_users) * 100, previous_users)
                            ELSE Rat(0, 1),
                         request_growth_rate |->
                            IF previous_requests > 0
                            THEN Rat((current_requests - previous_requests) * 100, previous_requests)
                            ELSE Rat(0, 1),
                         current_total_users |-> current_users,
                         current_total_requests |-> current_requests,
                         previous_total_users |-> previous_users,
                         previous_total_requests |-> previous_requests]]

----------------------------------------------------------------------------
(* Usage events and spending.  An event is [userEmail, tokenUsage] with     *)
(* tokenUsage either [kind |-> "absent"] (no dict in the cell) or           *)
(* [kind |-> "dict", totalCents, inputTokens, outputTokens,                 *)
(*  cacheWriteTokens, cacheReadTokens], a value Missing when the key is     *)
(* absent.  Emails are numbered.                                            *)

\* the most events a response holds
MaxEvents == 2

\* DataProcessor.process_usage_events_data, data_processor.py:187-230: lines 201-215
EventRow(event) ==
    LET tu == event.tokenUsage
        isDict == tu.kind = "dict"
    IN  [userEmail |-> event.userEmail,
         cost_cents |-> IF isDict THEN Get(tu.totalCents, 0) ELSE 0,
         input_tokens |-> IF isDict THEN Get(tu.inputTokens, 0) ELSE 0,
         output_tokens |-> IF isDict THEN Get(tu.outputTokens, 0) ELSE 0,
         cache_write_tokens |-> IF isDict THEN Get(tu.cacheWriteTokens, 0) ELSE 0,
         cache_read_tokens |-> IF isDict THEN Get(tu.cacheReadTokens, 0) ELSE 0]

\* lines 190-192 and 194-226
ProcessUsageEventsData(events) ==
    IF Len(events) = 0 THEN EmptyDF
    ELSE DataFrame([i \in 1..Len(events) |-> EventRow(events[i])])

\* numpy's float division x / y of non-negative floats: 0/0 is NaN, x/0 is inf
FloatDiv(x, y) ==
    IF y.num = 0 THEN (IF x.num = 0 THEN NaN ELSE Inf)
    ELSE Rat(x.num * y.den, x.den * y.num)

\* Series.fillna(0): NaN becomes 0, inf is not NA and stays
FillNa0(x) == IF IsNaN(x) THEN Rat(0, 1) ELSE x

RECURSIVE SortSet(_)
SortSet(S) ==
    IF S = {} THEN << >>
    ELSE LET m == CHOOSE x \in S : \A y \in S : x <= y
         IN  <<m>> \o SortSet(S \ {m})

\* groupby('userEmail').agg(sum).reset_index(), lines 310-318: one row per email,
\* in the order of the sorted keys
GroupSpending(rows) ==
    LET keys == SortSet({rows[i].userEmail : i \in 1..Len(rows)})
        Sum(k, col) ==
            SumSeq(Column(SelectSeq(rows, LAMBDA r : r.userEmail = keys[k]), col))
    IN  [k \in 1..Len(keys) |->
            [userEmail |-> keys[k],
             cost_cents |-> Sum(k, "cost_cents"),
             input_tokens |-> Sum(k, "input_tokens"),
             output_tokens |-> Sum(k, "output_tokens"),
             cache_write_tokens |-> Sum(k, "cache_write_tokens"),
             cache_read_tokens |-> Sum(k, "cache_read_tokens")]]

\* lines 330-332: cost_dollars / (total_tokens / 1000), then fillna(0)
CostPer1kTokens(cost_cents, total_tokens) ==
    FillNa0(FloatDiv(Rat(cost_cents, 100), Rat(total_tokens, 1000)))

\* lines 320-332
SpendingRow(g) ==
    LET total_tokens ==
            g.input_tokens + g.output_tokens + g.cache_write_tokens + g.cache_read_tokens
    IN  [userEmail |-> g.userEmail,
         cost_cents |-> g.cost_cents,
         cost_dollars |-> Rat(g.cost_cents, 100),
         total_tokens |-> total_tokens,
         cost_per_1k_tokens |-> CostPer1kTokens(g.cost_cents, total_tokens)]

\* DataProcessor.get_individual_spending_analysis, data_processor.py:303-355
\* (user_spending in the order of the groups; the sort of line 335 only reorders it)
GetIndividualSpendingAnalysis(usage_events_df) ==
    IF IsEmpty(usage_events_df) THEN EmptyDict
    ELSE LET groups == GroupSpending(usage_events_df.rows)
             user_spending == [k \in 1..Len(groups) |-> SpendingRow(groups[k])]
         IN  [kind |-> "spending",
              user_spending |-> user_spending,
              total_spending |-> Rat(SumSeq(Column(user_spending, "cost_cents")), 100),
              total_users |-> Len(user_spending)]

\* DataFrame.fillna(default) on a cell, lines 150-153: a cell the row's dict left out
\* (NaN in the frame) or gave as null becomes default
FillNa(v, default) == IF v = Missing \/ v = PyNone THEN default ELSE v

\* line 169 with one category left out
TotalPremiumRequestsNoApiKey(sub, usage, key) == sub + usage

\* line 169: subscription_requests + usage_based_requests + api_key_requests
TotalPremiumRequests(sub, usage, key) == sub + usage + key

\* the derived columns of a row once its cells are filled, lines 166-173
DerivedDailyRow(email, sub, usage, key, chat, composer) ==
    [email |-> email,
     subscription_requests |-> sub,
     usage_based_requests |-> usage,
     api_key_requests |-> key,
     total_premium_requests |-> TotalPremiumRequests(sub, usage, key),
     total_requests |-> chat + composer]

\* a divisor used as it is
KeepZero(x) == x

\* Series.replace(0, 1), lines 177-178
ReplaceZero(x) == IF x = 0 THEN 1 ELSE x

\* numpy's float division of two integer counts
CountDiv(x, y) == FloatDiv(Rat(x, 1), Rat(y, 1))

\* numpy's float product; NaN and inf go through
FloatMul(p, q) ==
    IF IsNaN(p) \/ IsNaN(q) THEN NaN
    ELSE IF IsInf(p) \/ IsInf(q) THEN (IF p.num = 0 \/ q.num = 0 THEN NaN ELSE Inf)
    ELSE Rat(p.num * q.num, p.den * q.den)

\* lines 176-179 with the four filled columns of the row
ProductivityColumns(accepts, applies, tabs_accepted, tabs_shown) ==
    [totalAccepts |-> accepts, totalApplies |-> applies,
     totalTabsAccepted |-> tabs_accepted, totalTabsShown |-> tabs_shown,
     productivity_score |->
        FloatMul(CountDiv(accepts, ReplaceZero(applies)),
                 CountDiv(tabs_accepted, ReplaceZero(tabs_shown)))]

\* lines 145-179 on one row of the payload's data
DailyRow(day) ==
    DerivedDailyRow(day.email,
                    FillNa(day.subscriptionIncludedReqs, 0), FillNa(day.usageBasedReqs, 0),
                    FillNa(day.apiKeyReqs, 0),
                    FillNa(day.chatRequests, 0), FillNa(day.composerRequests, 0))
    @@ ProductivityColumns(FillNa(day.totalAccepts, 0), FillNa(day.totalApplies, 1),
                           FillNa(day.totalTabsAccepted, 0), FillNa(day.totalTabsShown, 1))

\* process_daily_usage_data returning None, not a frame, for a payload without rows
ProcessDailyUsageDataOrNone(daily_usage_data) ==
    IF ~daily_usage_data.has_data \/ Len(daily_usage_data.data) = 0 THEN DFNone
    ELSE DataFrame([i \in 1..Len(daily_usage_data.data) |-> DailyRow(daily_usage_data.data[i])])

\* DataProcessor.process_daily_usage_data, data_processor.py:131-185, on the payload
\* {'data': data}, or {} when has_data is FALSE (lines 134-136: an empty frame)
ProcessDailyUsageData(daily_usage_data) ==
    IF ~daily_usage_data.has_data \/ Len(daily_usage_data.data) = 0 THEN EmptyDF
    ELSE DataFrame([i \in 1..Len(daily_usage_data.data) |-> DailyRow(daily_usage_data.data[i])])

\* lines 275, 279, 283 without the guard on total_all
PercentageOfTotalUnguarded(x, total_all) == Rat(x * 100, total_all)

\* lines 275, 279, 283: (x / total_all * 100) if total_all > 0 else 0
PercentageOfTotal(x, total_all) ==
    IF total_all > 0 THEN Rat(x * 100, total_all) ELSE Rat(0, 1)

\* DataProcessor.get_premium_requests_analysis, data_processor.py:251-301, over rows
\* [email, subscription_requests, usage_based_requests, api_key_requests]
GetPremiumRequestsAnalysis(daily_usage_df) ==
    IF IsEmpty(daily_usage_df) THEN EmptyDict
    ELSE LET rows == daily_usage_df.rows
             total_subscription == SumSeq(Column(rows, "subscription_requests"))
             total_usage_based == SumSeq(Column(rows, "usage_based_requests"))
             total_api_key == SumSeq(Column(rows, "api_key_requests"))
             total_all == total_subscription + total_usage_based + total_api_key
         IN  [kind |-> "premium",
              subscription_requests |->
                [count |-> total_subscription, percentage |-> PercentageOfTotal(total_subscription, total_all)],
              usage_based_requests |->
                [count |-> total_usage_based, percentage |-> PercentageOfTotal(total_usage_based, total_all)],
              api_key_requests |->
                [count |-> total_api_key, percentage |-> PercentageOfTotal(total_api_key, total_all)],
              total_requests |-> total_all]

----------------------------------------------------------------------------
(* CursorAPIClient, cursor_api.py.  A response of the vendor API is         *)
(* Failed when _make_request raises (transport error, HTTP error status,    *)
(* invalid JSON), else Ok(body) with body the sequence of rows it carries.  *)
(* Every row carries origin: "vendor" for a row of the response, "mock"     *)
(* for a row one of the _generate_mock_ methods made up.  Users and emails  *)
(* are numbered, and a user's id is the user's email.                       *)

Failed == [failed |-> TRUE, body |-> << >>]
Ok(body) == [failed |-> FALSE, body |-> body]

\* how many rows a _generate_mock_ method makes up in the model
\* (15 users, 30 daily rows, 50 events in cursor_api.py:306, 375, 417)
MaxMockRows == 2
\* the most members a vendor response lists
MaxMembers == 2

\* _generate_mock_users, cursor_api.py:300-320: ids user_1.., naive isoformat timestamps
GenerateMockUsers ==
    [i \in 1..MaxMockRows |->
        [id |-> 100 + i, email |-> TRUE, ts |-> "naive", origin |-> "mock"]]

\* _generate_mock_daily_usage, cursor_api.py:370-410
GenerateMockDailyUsage ==
    [i \in 1..MaxMockRows |->
        [email |-> 100 + i, origin |-> "mock", isActive |-> TRUE,
         chatRequests |-> 10, composerRequests |-> 5]]

\* _generate_mock_usage_events, cursor_api.py:412-451
GenerateMockUsageEvents ==
    [i \in 1..MaxMockRows |->
        [userEmail |-> 100 + i, origin |-> "mock", timestamp |-> i,
         kindLabel |-> "Usage-based",
         tokenUsage |-> [kind |-> "dict", totalCents |-> 1, inputTokens |-> 50,
                         outputTokens |-> 100, cacheWriteTokens |-> 0, cacheReadTokens |-> 0]]]

\* _generate_mock_spending_data, cursor_api.py:453-468: one made-up spending record
GenerateMockSpendingData ==
    <<[totalSpent |-> 100, usageBased |-> 50, subscription |-> 50, origin |-> "mock"]>>

\* get_team_members, cursor_api.py:76-83
GetTeamMembers(resp) == IF resp.failed THEN GenerateMockUsers ELSE resp.body
\* get_daily_usage_data, cursor_api.py:85-97
GetDailyUsageData(resp) == IF resp.failed THEN GenerateMockDailyUsage ELSE resp.body
\* get_usage_events, cursor_api.py:99-117
GetUsageEvents(resp) == IF resp.failed THEN GenerateMockUsageEvents ELSE resp.body
\* get_spending_data, cursor_api.py:119-131
GetSpendingData(resp) == IF resp.failed THEN GenerateMockSpendingData ELSE resp.body

\* the paths _make_request is called with
MembersEndpoint == "/teams/members"
DailyEndpoint == "/teams/daily-usage-data"
EventsEndpoint == "/teams/filtered-usage-events"
SpendingEndpoint == "/teams/spending-data"

\* _generate_mock_user_usage, cursor_api.py:322-348: random metrics within the ranges
\* of randint; rand is "low" or "high", the end of its range every draw takes
GenerateMockUserUsage(user_id, rand) ==
    [kind |-> "metrics",
     metrics |->
        IF rand = "low"
        THEN [total_sessions |-> 10, total_requests |-> 100, total_tokens |-> 10000,
              unique_days_active |-> 5, avg_session_duration |-> 30, feature_chat |-> 10]
        ELSE [total_sessions |-> 100, total_requests |-> 1000, total_tokens |-> 100000,
              unique_days_active |-> 30, avg_session_duration |-> 300, feature_chat |-> 100]]

\* event.get('tokenUsage', {}).get('totalCents', 0), cursor_api.py:209 and 228: the
\* key absent gives {}, a JSON null gives None and .get raises AttributeError
EventCentsRaises(event) == event.tokenUsage.kind = "null"
EventCents(event) ==
    IF event.tokenUsage.kind = "dict" THEN Get(event.tokenUsage.totalCents, 0) ELSE 0

\* _process_user_usage_from_events, cursor_api.py:203-266.  An event's timestamp is
\* the number of its day, so the distinct timestamp prefixes of line 242 and the
\* dates of daily_usage (lines 215-218) are both the distinct days.
ProcessUserUsageFromEvents(user_email, events) ==
    IF \E i \in 1..Len(events) : EventCentsRaises(events[i])
    THEN [raised |-> TRUE, data |-> [kind |-> "falsy"]]
    ELSE LET days == {events[i].timestamp : i \in 1..Len(events)}
         IN  [raised |-> FALSE,
              data |->
                [kind |-> "metrics",
                 metrics |->
                    [total_sessions |-> Cardinality(days),
                     total_requests |-> Len(events),
                     total_tokens |-> 100 * SumSeq([i \in 1..Len(events) |-> EventCents(events[i])]),
                     unique_days_active |-> Cardinality(days),
                     avg_session_duration |-> 120,
                     feature_chat |->
                        Len(SelectSeq(events, LAMBDA e : e.kindLabel = "Usage-based"))]]]

\* get_user_usage, cursor_api.py:162-185: members is what get_team_members answers
\* (line 165), events_resp the vendor's response to the events request for the user
GetUserUsage(user_id, members, events_resp, rand) ==
    IF \E i \in 1..Len(members) : members[i].id = user_id /\ members[i].email
    THEN ProcessUserUsageFromEvents(user_id, GetUsageEvents(events_resp))
    ELSE [raised |-> FALSE, data |-> GenerateMockUserUsage(user_id, rand)]

----------------------------------------------------------------------------
(* Config.validate (config.py:38-43) and the state after construction:      *)
(* CursorDataService.__init__ (data_service.py:17-32), DataProcessor        *)
(* .__init__ (data_processor.py:14-20), CursorDashboard.__init__            *)
(* (dashboard.py:29-53), and a data directory without files.                *)

\* Config.validate() returns True; otherwise it raises ValueError
ConfigValid(cfg) == cfg.CURSOR_API_KEY

FreshService ==
    [api_client |-> FALSE, last_refresh |-> 0,
     users_df |-> DFNone, usage_df |-> DFNone, analytics_data |-> NoneDict]

FreshProcessor == [users_df |-> DFNone, usage_df |-> DFNone]

FreshDashboard ==
    [api_client |-> FALSE, data_loaded |-> FALSE,
     users_data |-> DFNone, usage_data |-> DFNone, data_processor |-> FreshProcessor]

NoFile == [exists |-> FALSE, data |-> << >>]
File(data) == [exists |-> TRUE, data |-> data]

EmptyStorage == [users_file |-> NoFile, usage_file |-> NoFile, cache_fresh |-> FALSE]

\* no request issued, nothing fetched
NoApi ==
    [endpoints |-> {}, failed |-> {}, fetched |-> FALSE,
     users_data |-> << >>, usage_data |-> << >>, raised |-> {}]
NoResult == [call |-> "none", status |-> "none"]
NoCycle == [ran |-> FALSE, users_data |-> << >>, usage_data |-> << >>]
NoOut == [kind |-> "none"]

\* everything but the pure functions' variables, as constructed
Constructed ==
    /\ config = [CURSOR_API_KEY |-> TRUE]
    /\ svc = FreshService
    /\ storage = EmptyStorage
    /\ api = NoApi
    /\ result = NoResult
    /\ cycle = NoCycle
    /\ dash = FreshDashboard
    /\ now = 0

----------------------------------------------------------------------------
(* Specification SpecNorm: process_usage_data applied to every batch of up  *)
(* to MaxUsers users, by a processor that is new or holds an earlier frame. *)

SessionVals == {0, 1}
RequestVals == {0, 1, 2}

MetricsF(s, r, t, chat) ==
    [total_sessions |-> s, total_requests |-> r, total_tokens |-> t,
     unique_days_active |-> Missing, avg_session_duration |-> Missing,
     feature_chat |-> chat]

Metrics(s, r, t) == MetricsF(s, r, t, Missing)

\* the records that normalize: every sessions/requests pair without tokens, and one
\* record with tokens and feature usage
ValidData ==
    {[kind |-> "metrics", metrics |-> Metrics(s, r, 0)] : s \in SessionVals, r \in RequestVals}
        \cup {[kind |-> "metrics", metrics |-> MetricsF(1, 2, 50, 3)]}

\* a metrics dict whose total_sessions is null
NullData == [kind |-> "metrics", metrics |-> Metrics(PyNone, 1, 0)]
FalsyData == [kind |-> "falsy"]
NoMetricsData == [kind |-> "nometrics"]

RawData == ValidData \cup {NullData, FalsyData, NoMetricsData}

\* the dicts {1: d[1], ..., n: d[n]} with values in D
BatchesOver(D) ==
    UNION {{[i \in 1..n |-> [user_id |-> i, data |-> d[i]]] : d \in [1..n -> D]} :
              n \in 0..MaxUsers}

\* the frame an earlier call left in the processor (users 8 and 9)
PriorFrame ==
    ProcessUsageData(
        <<[user_id |-> 8, data |-> [kind |-> "metrics", metrics |-> Metrics(1, 2, 50)]],
          [user_id |-> 9, data |-> [kind |-> "metrics", metrics |-> Metrics(1, 1, 0)]]>>,
        DFNone).usage_df

InitNorm ==
    /\ Constructed
    /\ dp \in {FreshProcessor, [users_df |-> DFNone, usage_df |-> PriorFrame]}
    /\ inp \in BatchesOver(RawData)
    /\ out = NoOut
    /\ pc = "start"

\* df = processor.process_usage_data(usage_data)
NormProcess ==
    /\ pc = "start"
    /\ LET r == ProcessUsageData(inp, dp.usage_df)
       IN  /\ dp' = [dp EXCEPT !.usage_df = r.usage_df]
           /\ out' = [kind |-> "usage", ret |-> r.ret, raised |-> r.raised]
    /\ pc' = "normalized"
    /\ UNCHANGED <<config, svc, storage, api, result, cycle, dash, now, inp>>

NextNorm == NormProcess

SpecNorm == InitNorm /\ [][NextNorm]_vars

----------------------------------------------------------------------------
(* Claims about process_usage_data (specification SpecNorm).                *)

Normalized == pc = "normalized" /\ out.kind = "usage"

RankedCols == {"total_sessions", "total_requests", "total_tokens", "activity_score"}

PercentileCol ==
    [col \in RankedCols |->
        CASE col = "total_sessions" -> "total_sessions_percentile"
          [] col = "total_requests" -> "total_requests_percentile"
          [] col = "total_tokens" -> "total_tokens_percentile"
          [] col = "activity_score" -> "activity_score_percentile"]

AllEqual(vals) == \A i, j \in 1..Len(vals) : vals[i] = vals[j]

\* the items of the input whose record normalizes
ValidItems(usage_data) ==
    {i \in 1..Len(usage_data) :
        HasMetrics(usage_data[i].data) /\ ~RowRaises(usage_data[i].data.metrics)}

\* C1: a record that fails normalization is dropped and every other valid record of
\* the batch still appears, normalized, in the output of process_usage_data: for
\* every valid item of the input there is a row of the returned frame with its
\* user_id and its flattened metrics.
C1_ValidRecordsSurvive ==
    Normalized =>
        \A i \in ValidItems(inp) :
            \E j \in 1..Len(out.ret.rows) :
                /\ out.ret.rows[j].user_id = inp[i].user_id
                /\ out.ret.rows[j].total_requests = Get(inp[i].data.metrics.total_requests, 0)

\* C8 as stated (for N >= 2): when all N values of a ranked metric are equal, every
\* row gets the percentile rank 50.0 for that metric.
C8_EqualValuesRank50 ==
    (Normalized /\ ~out.raised /\ Len(out.ret.rows) >= 2) =>
        \A col \in RankedCols :
            AllEqual(Column(out.ret.rows, col)) =>
                \A i \in 1..Len(out.ret.rows) :
                    LET p == out.ret.rows[i][PercentileCol[col]]
                    IN  IsFinite(p) /\ p.num = 50 * p.den

\* C8 as amended: when all N values of a ranked metric are equal, every row gets the
\* percentile rank (N + 1) / (2 N) x 100 for that metric (the average rank (N + 1) / 2
\* divided by the count N): 100.0 for N = 1, 75.0 for N = 2, 60.0 for N = 5.
C8_EqualValuesRankMidpoint ==
    (Normalized /\ ~out.raised) =>
        \A col \in RankedCols :
            AllEqual(Column(out.ret.rows, col)) =>
                \A i \in 1..Len(out.ret.rows) :
                    LET p == out.ret.rows[i][PercentileCol[col]]
                        n == Len(out.ret.rows)
                    IN  IsFinite(p) /\ p.num * (2 * n) = 100 * (n + 1) * p.den

\* a frame of at least two rows whose total_requests are all equal and positive
C8_Witness ==
    /\ Normalized /\ ~out.raised
    /\ Len(out.ret.rows) >= 2
    /\ AllEqual(Column(out.ret.rows, "total_requests"))
    /\ out.ret.rows[1].total_requests > 0
    /\ RatEq(out.ret.rows[1].total_requests_percentile, Rat(100 * (Len(out.ret.rows) + 1), 2 * Len(out.ret.rows)))

\* C9: each percentile column equals rank / count x 100 over the rows of the current
\* batch only, a group of tied values getting the average of the ranks it spans: with
\* `less` rows of the batch below the value and `same` rows equal to it (itself
\* included) the group spans the ranks less+1 .. less+same, whose average is
\* less + (same + 1) / 2, and count is the number of rows the batch produced.
C9_PercentileIsAverageRankOverCount ==
    (Normalized /\ ~out.raised) =>
        LET rows == out.ret.rows
            count == Len(Kept(inp))
        IN  /\ Len(rows) = count
            /\ \A col \in RankedCols : \A i \in 1..Len(rows) :
                LET vals == Column(rows, col)
                    less == Cardinality({j \in 1..Len(rows) : vals[j] < vals[i]})
                    same == Cardinality({j \in 1..Len(rows) : vals[j] = vals[i]})
                    p == rows[i][PercentileCol[col]]
                IN  IsFinite(p) /\ p.num * (2 * count) = 100 * (2 * less + same + 1) * p.den

\* a processor that held an earlier frame ranks a batch with a tie below another value
C9_Witness ==
    /\ Normalized /\ ~out.raised
    /\ Len(out.ret.rows) = 3
    /\ dp.usage_df = out.ret
    /\ \E i, j, k \in 1..3 :
        /\ i # j
        /\ out.ret.rows[i].total_requests = out.ret.rows[j].total_requests
        /\ out.ret.rows[i].total_requests < out.ret.rows[k].total_requests
        /\ RatEq(out.ret.rows[i].total_requests_percentile, Rat(100 * 3, 2 * 3))
        /\ RatEq(out.ret.rows[k].total_requests_percentile, Rat(100, 1))

\* C11: for every usage row produced by process_usage_data, requests_per_session is 0
\* when total_sessions is 0 and total_requests / total_sessions otherwise,
\* tokens_per_request is 0 when total_requests is 0 and total_tokens / total_requests
\* otherwise; both are finite numbers, and a batch whose kept records hold no null
\* metric does not raise.
C11_RatiosGuardZeroDenominator ==
    Normalized =>
        /\ (\A i \in 1..Len(inp) : HasMetrics(inp[i].data) => i \in ValidItems(inp))
                => ~out.raised
        /\ \A i \in 1..Len(out.ret.rows) :
            LET row == out.ret.rows[i]
            IN  /\ IsFinite(row.requests_per_session)
                /\ IsFinite(row.tokens_per_request)
                /\ row.total_sessions = 0 => row.requests_per_session.num = 0
                /\ row.total_requests = 0 => row.tokens_per_request.num = 0
                /\ row.total_sessions # 0 =>
                        RatEq(row.requests_per_session,
                              Rat(row.total_requests, row.total_sessions))
                /\ row.total_requests # 0 =>
                        RatEq(row.tokens_per_request,
                              Rat(row.total_tokens, row.total_requests))

\* a frame with a row that has requests but no sessions, and a row with both
C11_Witness ==
    /\ Normalized /\ ~out.raised
    /\ \E i, j \in 1..Len(out.ret.rows) :
        /\ out.ret.rows[i].total_sessions = 0
        /\ out.ret.rows[i].total_requests > 0
        /\ out.ret.rows[i].requests_per_session = Rat(0, 1)
        /\ out.ret.rows[j].total_sessions > 0
        /\ out.ret.rows[j].total_requests = 2
        /\ RatEq(out.ret.rows[j].requests_per_session, Rat(2, 1))
        /\ RatEq(out.ret.rows[j].tokens_per_request, Rat(25, 1))

----------------------------------------------------------------------------
(* Specification SpecAgain: process_usage_data on a batch, then once more   *)
(* on the batch written back from the rows it returned.                     *)

\* the rows of a normalized frame in the raw shape: {user_id: {'metrics': {...}}}
Reserialized(df) ==
    [i \in 1..Len(df.rows) |->
        [user_id |-> df.rows[i].user_id,
         data |-> [kind |-> "metrics",
                   metrics |-> [total_sessions |-> df.rows[i].total_sessions,
                                total_requests |-> df.rows[i].total_requests,
                                total_tokens |-> df.rows[i].total_tokens,
                                unique_days_active |-> df.rows[i].unique_days_active,
                                avg_session_duration |-> df.rows[i].avg_session_duration,
                                feature_chat |-> df.rows[i].feature_chat]]]]

\* df2 = processor.process_usage_data(reserialized(df))
NormAgain ==
    /\ pc = "normalized"
    /\ LET r == ProcessUsageData(Reserialized(out.ret), dp.usage_df)
       IN  /\ dp' = [dp EXCEPT !.usage_df = r.usage_df]
           /\ out' = [kind |-> "usage_again", first |-> out.ret, first_raised |-> out.raised,
                      ret |-> r.ret, raised |-> r.raised]
    /\ pc' = "normalized_again"
    /\ UNCHANGED <<config, svc, storage, api, result, cycle, dash, now, inp>>

NextAgain == NormProcess \/ NormAgain

SpecAgain == InitNorm /\ [][NextAgain]_vars

\* two floats that are the same number
SameFloat(p, q) == IsFinite(p) /\ IsFinite(q) /\ RatEq(p, q)

\* C27: process_usage_data run again on a batch whose raw metrics are those of its own
\* output gives every user the same requests_per_session, tokens_per_request,
\* activity_score and percentile ranks.
C27_NormalizationIdempotent ==
    (pc = "normalized_again" /\ out.kind = "usage_again") =>
        /\ ~out.raised
        /\ Len(out.ret.rows) = Len(out.first.rows)
        /\ \A i \in 1..Len(out.ret.rows) :
            LET a == out.first.rows[i]
                b == out.ret.rows[i]
            IN  /\ b.user_id = a.user_id
                /\ b.activity_score = a.activity_score
                /\ SameFloat(b.requests_per_session, a.requests_per_session)
                /\ SameFloat(b.tokens_per_request, a.tokens_per_request)
                /\ SameFloat(b.total_sessions_percentile, a.total_sessions_percentile)
                /\ SameFloat(b.total_requests_percentile, a.total_requests_percentile)
                /\ SameFloat(b.total_tokens_percentile, a.total_tokens_percentile)
                /\ SameFloat(b.activity_score_percentile, a.activity_score_percentile)

\* a batch of three records, one of them skipped: the two rows of the first run, one
\* with 25 tokens per request, are the two rows of the second run
C27_Witness ==
    /\ pc = "normalized_again"
    /\ Len(inp) = 3
    /\ ~out.first_raised
    /\ Len(out.first.rows) = 2
    /\ out.ret.rows = out.first.rows
    /\ \E i, j \in 1..2 :
        /\ RatEq(out.ret.rows[i].tokens_per_request, Rat(25, 1))
        /\ out.ret.rows[j].activity_score < out.ret.rows[i].activity_score

----------------------------------------------------------------------------
(* Specification SpecAnalyze: a new processor normalizes a usage batch and  *)
(* one downstream function is then called.  The functions over the usage    *)
(* table read the processor's usage_df; get_premium_requests_analysis and   *)
(* get_individual_spending_analysis read the frame they are handed.         *)

AnalyzeData ==
    {FalsyData, NoMetricsData,
     [kind |-> "metrics", metrics |-> Metrics(0, 0, 0)],
     [kind |-> "metrics", metrics |-> MetricsF(1, 2, 50, 3)]}

\* frames process_daily_usage_data returns (data_processor.py:131-185)
DailyFrames ==
    {EmptyDF,
     DataFrame(<<[email |-> 1, subscription_requests |-> 0, usage_based_requests |-> 0,
                  api_key_requests |-> 0]>>),
     DataFrame(<<[email |-> 1, subscription_requests |-> 3, usage_based_requests |-> 1,
                  api_key_requests |-> 0],
                 [email |-> 2, subscription_requests |-> 0, usage_based_requests |-> 4,
                  api_key_requests |-> 0]>>)}

\* usageEvents lists handed to process_usage_events_data
EventLists ==
    {<< >>,
     <<[userEmail |-> 1, tokenUsage |-> [kind |-> "absent"]]>>,
     <<[userEmail |-> 1,
        tokenUsage |-> [kind |-> "dict", totalCents |-> 5, inputTokens |-> 1000,
                        outputTokens |-> Missing, cacheWriteTokens |-> Missing,
                        cacheReadTokens |-> Missing]]>>}

\* previous_data handed to calculate_growth_metrics
PreviousData == {NoneDict, [kind |-> "prev", total_users |-> 1, total_requests |-> 2]}

TopMetrics == {"total_requests", "activity_score"}
TopNs == {1, 10}

InitAnalyze ==
    /\ Constructed
    /\ dp = FreshProcessor
    /\ inp \in BatchesOver(AnalyzeData)
    /\ out = NoOut
    /\ pc = "start"

\* what a downstream call left: the function, whether the frame it read had no rows,
\* whether it raised, and the value it returned
Analysis(fn, batch_empty, raised, value) ==
    [kind |-> "analysis", fn |-> fn, batch_empty |-> batch_empty,
     raised |-> raised, value |-> value]

UsageBatchEmpty == ~dp.usage_df.isNone /\ IsEmpty(dp.usage_df)

AnTopUsers(metric, top_n) ==
    /\ pc = "normalized"
    /\ out' = Analysis("get_top_users", UsageBatchEmpty, FALSE,
                       GetTopUsers(dp.usage_df, metric, top_n))
    /\ pc' = "analyzed"
    /\ UNCHANGED <<config, svc, dp, storage, api, result, cycle, dash, now, inp>>

AnFeatureUsage ==
    /\ pc = "normalized"
    /\ out' = Analysis("analyze_feature_usage", UsageBatchEmpty, FALSE,
                       AnalyzeFeatureUsage(dp.usage_df))
    /\ pc' = "analyzed"
    /\ UNCHANGED <<config, svc, dp, storage, api, result, cycle, dash, now, inp>>

AnSegmentation ==
    /\ pc = "normalized"
    /\ out' = Analysis("get_user_segmentation", UsageBatchEmpty, FALSE,
                       GetUserSegmentation(dp.usage_df))
    /\ pc' = "analyzed"
    /\ UNCHANGED <<config, svc, dp, storage, api, result, cycle, dash, now, inp>>

AnSummaryStats ==
    /\ pc = "normalized"
    /\ out' = Analysis("export_summary_stats", UsageBatchEmpty, FALSE,
                       ExportSummaryStats(dp.usage_df))
    /\ pc' = "analyzed"
    /\ UNCHANGED <<config, svc, dp, storage, api, result, cycle, dash, now, inp>>

AnGrowthMetrics(previous_data) ==
    /\ pc = "normalized"
    /\ LET r == CalculateGrowthMetrics(dp.users_df, dp.usage_df, previous_data)
       IN  out' = Analysis("calculate_growth_metrics", UsageBatchEmpty, r.raised, r.value)
    /\ pc' = "analyzed"
    /\ UNCHANGED <<config, svc, dp, storage, api, result, cycle, dash, now, inp>>

AnPremiumRequests(daily_usage_df) ==
    /\ pc = "normalized"
    /\ out' = Analysis("get_premium_requests_analysis", IsEmpty(daily_usage_df), FALSE,
                       GetPremiumRequestsAnalysis(daily_usage_df))
    /\ pc' = "analyzed"
    /\ UNCHANGED <<config, svc, dp, storage, api, result, cycle, dash, now, inp>>

AnIndividualSpending(events) ==
    /\ pc = "normalized"
    /\ LET usage_events_df == ProcessUsageEventsData(events)
       IN  out' = Analysis("get_individual_spending_analysis", IsEmpty(usage_events_df),
                           FALSE, GetIndividualSpendingAnalysis(usage_events_df))
    /\ pc' = "analyzed"
    /\ UNCHANGED <<config, svc, dp, storage, api, result, cycle, dash, now, inp>>

NextAnalyze ==
    \/ NormProcess
    \/ \E metric \in TopMetrics, top_n \in TopNs : AnTopUsers(metric, top_n)
    \/ AnFeatureUsage
    \/ AnSegmentation
    \/ AnSummaryStats
    \/ \E previous_data \in PreviousData : AnGrowthMetrics(previous_data)
    \/ \E daily_usage_df \in DailyFrames : AnPremiumRequests(daily_usage_df)
    \/ \E events \in EventLists : AnIndividualSpending(events)

SpecAnalyze == InitAnalyze /\ [][NextAnalyze]_vars

\* an empty or zero-valued result: {} , an empty frame, or the baseline with zero counts
EmptyOrZero(value) ==
    \/ value = EmptyDict
    \/ value = EmptyDF
    \/ (value.kind = "baseline" /\ value.active_users = 0 /\ value.total_requests = 0)
    \/ (value.kind = "growth" /\ value.current_total_requests = 0)

\* C7: when the batch a downstream function reads is empty (the processor's usage_df
\* has no rows; for the premium and spending analyses, the frame handed in has no
\* rows), the function does not raise and returns an empty or zero-valued result.
C7_EmptyBatchEmptyResult ==
    (pc = "analyzed" /\ out.kind = "analysis" /\ out.batch_empty) =>
        ~out.raised /\ EmptyOrZero(out.value)

----------------------------------------------------------------------------
(* Specification SpecSegment: a new processor normalizes a usage batch of   *)
(* up to MaxSegmentUsers users with up to three levels of activity, then    *)
(* get_user_segmentation is called.                                         *)

\* the largest batch segmented
MaxSegmentUsers == 4

\* three records whose activity scores differ
SegmentData ==
    {[kind |-> "metrics", metrics |-> Metrics(0, 0, 0)],
     [kind |-> "metrics", metrics |-> Metrics(1, 1, 0)],
     [kind |-> "metrics", metrics |-> MetricsF(1, 2, 50, 3)]}

SegmentBatches ==
    UNION {{[i \in 1..n |-> [user_id |-> i, data |-> d[i]]] : d \in [1..n -> SegmentData]} :
              n \in 0..MaxSegmentUsers}

InitSegment ==
    /\ Constructed
    /\ dp = FreshProcessor
    /\ inp \in SegmentBatches
    /\ out = NoOut
    /\ pc = "start"

NextSegment == NormProcess \/ AnSegmentation

SpecSegment == InitSegment /\ [][NextSegment]_vars

\* get_user_segmentation returned, on a batch with rows
Segmented ==
    /\ pc = "analyzed"
    /\ out.kind = "analysis"
    /\ out.fn = "get_user_segmentation"
    /\ ~IsEmpty(dp.usage_df)

\* C13: get_user_segmentation on a non-empty usage batch returns the four tiers Low
\* Activity, Medium Activity, High Activity, Power Users, each once, whatever the size
\* of the batch; a tier without members has count 0 and percentage 0.0.
C13_FourTiersAlwaysPresent ==
    Segmented =>
        /\ out.value.kind = "segmentation"
        /\ Len(out.value.segments) = 4
        /\ \A k \in 1..4 : \E j \in 1..Len(out.value.segments) :
                out.value.segments[j].segment = Segments[k]
        /\ \A j \in 1..Len(out.value.segments) :
                LET e == out.value.segments[j]
                IN  (\A i \in 1..DFLen(dp.usage_df) :
                        SegmentOf(dp.usage_df.rows[i].activity_score_percentile)
                            # CHOOSE k \in 1..4 : Segments[k] = e.segment)
                        => (e.count = 0 /\ IsFinite(e.percentage) /\ e.percentage.num = 0)

\* a batch of two users: two tiers have a member each, two tiers are empty
C13_Witness ==
    /\ Segmented
    /\ DFLen(dp.usage_df) = 2
    /\ Len(out.value.segments) = 4
    /\ Cardinality({j \in 1..4 : out.value.segments[j].count = 1}) = 2
    /\ Cardinality({j \in 1..4 : out.value.segments[j].count = 0
                                    /\ out.value.segments[j].percentage.num = 0}) = 2

\* the tier of the percentile p: 0 <= p <= 25 Low Activity (1), 25 < p <= 50 Medium
\* Activity (2), 50 < p <= 75 High Activity (3), 75 < p <= 100 Power Users (4)
InTier(p, k) ==
    /\ IsFinite(p)
    /\ CASE k = 1 -> 0 <= p.num /\ p.num <= 25 * p.den
         [] k = 2 -> 25 * p.den < p.num /\ p.num <= 50 * p.den
         [] k = 3 -> 50 * p.den < p.num /\ p.num <= 75 * p.den
         [] k = 4 -> 75 * p.den < p.num /\ p.num <= 100 * p.den

\* C14: get_user_segmentation places every user of the batch in exactly one tier, the
\* one of the user's activity_score percentile; the count of a tier is the number of
\* users whose percentile is in it, the four counts sum to the batch size and a tier's
\* percentage is count / batch size x 100.
C14_EveryUserInOneTier ==
    Segmented =>
        LET rows == dp.usage_df.rows
            segs == out.value.segments
        IN  /\ \A i \in 1..Len(rows) :
                    Cardinality({k \in 1..4 : InTier(rows[i].activity_score_percentile, k)}) = 1
            /\ \A k \in 1..4 :
                /\ segs[k].segment = Segments[k]
                /\ segs[k].count =
                        Cardinality({i \in 1..Len(rows) :
                                        InTier(rows[i].activity_score_percentile, k)})
                /\ RatEq(segs[k].percentage, Rat(segs[k].count * 100, Len(rows)))
            /\ SumSeq(Column(segs, "count")) = Len(rows)

\* a batch of four users: one at percentile 25 exactly in Low Activity, one at 50 in
\* Medium Activity, two in Power Users
C14_Witness ==
    /\ Segmented
    /\ DFLen(dp.usage_df) = 4
    /\ \E i, j \in 1..4 :
        /\ RatEq(dp.usage_df.rows[i].activity_score_percentile, Rat(25, 1))
        /\ RatEq(dp.usage_df.rows[j].activity_score_percentile, Rat(50, 1))
    /\ out.value.segments[1].count = 1
    /\ out.value.segments[2].count = 1
    /\ out.value.segments[3].count = 0
    /\ out.value.segments[4].count = 2

----------------------------------------------------------------------------
(* Specification SpecTop: a new processor normalizes a usage batch of up to *)
(* MaxSegmentUsers users, then get_top_users(metric, top_n) is called.      *)

\* the values of top_n; 10 is the default of get_top_users
SelectNs == {1, 2, 10}

TopUsers(metric, top_n) ==
    /\ pc = "normalized"
    /\ out' = [kind |-> "top_users", metric |-> metric, top_n |-> top_n,
               value |-> GetTopUsers(dp.usage_df, metric, top_n)]
    /\ pc' = "selected"
    /\ UNCHANGED <<config, svc, dp, storage, api, result, cycle, dash, now, inp>>

NextTop ==
    \/ NormProcess
    \/ \E metric \in TopMetrics, top_n \in SelectNs : TopUsers(metric, top_n)

SpecTop == InitSegment /\ [][NextTop]_vars

\* the position in the frame rows of the row of user_id
PositionOfUser(rows, user_id) == CHOOSE j \in 1..Len(rows) : rows[j].user_id = user_id

----------------------------------------------------------------------------
(* Specification SpecScore: _calculate_activity_score on rows whose metrics *)
(* are zero, below, at and above the value at which each one is capped.     *)

ScoreRows ==
    [total_sessions : {0, 50, 100, 250},
     total_requests : {0, 1, 1000, 5000},
     total_tokens : {0, 50, 100000, 200000},
     unique_days_active : {0, 7, 30, 31},
     avg_session_duration : {0, 100, 300, 301}]

InitScore ==
    /\ Constructed
    /\ dp = FreshProcessor
    /\ inp \in ScoreRows
    /\ out = NoOut
    /\ pc = "start"

ActivityScore ==
    /\ pc = "start"
    /\ out' = [kind |-> "score", activity_score |-> CalculateActivityScore(inp)]
    /\ pc' = "scored"
    /\ UNCHANGED <<config, svc, dp, storage, api, result, cycle, dash, now, inp>>

NextScore == ActivityScore

SpecScore == InitScore /\ [][NextScore]_vars

\* min(x / cap, 1) x weight x 100, in units of 1/150 of a hundredth; weight150 is the
\* weight x 10000 x 150 and divides by the cap
Weighted(x, cap, weight150) == IF x >= cap THEN weight150 ELSE (weight150 * x) \div cap

\* C22: for a row of non-negative metrics _calculate_activity_score is
\* 100 x (0.2 min(sessions/100, 1) + 0.3 min(requests/1000, 1) + 0.2 min(tokens/100000, 1)
\* + 0.2 min(days/30, 1) + 0.1 min(duration/300, 1)) rounded to two decimals, a score
\* from 0 to 100.  The score is held in hundredths.
C22_ActivityScoreFormula ==
    (pc = "scored" /\ out.kind = "score") =>
        LET exact150 == Weighted(inp.total_sessions, 100, 300000)
                        + Weighted(inp.total_requests, 1000, 450000)
                        + Weighted(inp.total_tokens, 100000, 300000)
                        + Weighted(inp.unique_days_active, 30, 300000)
                        + Weighted(inp.avg_session_duration, 300, 150000)
            d == 150 * out.activity_score - exact150
        IN  /\ out.activity_score >= 0
            /\ out.activity_score <= 10000
            /\ -75 <= d /\ d <= 75

\* every metric above its cap: the score is 100.00; and so it is with every metric at
\* its cap
C22_Witness ==
    /\ pc = "scored"
    /\ inp.total_sessions = 250
    /\ inp.total_requests = 5000
    /\ inp.total_tokens = 200000
    /\ inp.unique_days_active = 31
    /\ inp.avg_session_duration = 301
    /\ out.activity_score = 10000

\* 50 sessions, 1 request, 50 tokens, 7 active days, 100 seconds: 10 + 0.03 + 0.01
\* + 4.666... + 3.333... = 18.04
C22_Partial ==
    /\ pc = "scored"
    /\ inp = [total_sessions |-> 50, total_requests |-> 1, total_tokens |-> 50,
              unique_days_active |-> 7, avg_session_duration |-> 100]
    /\ out.activity_score = 1804

----------------------------------------------------------------------------
(* Specification SpecSpend: process_usage_events_data on every list of up   *)
(* to MaxEvents events of two users, then get_individual_spending_analysis  *)
(* on the frame it returned.                                                *)

CentsVals == {Missing, 0, 5}
InputTokenVals == {Missing, 0, 1000}

TokenUsages ==
    {[kind |-> "absent"]} \cup
    {[kind |-> "dict", totalCents |-> c, inputTokens |-> t, outputTokens |-> Missing,
      cacheWriteTokens |-> Missing, cacheReadTokens |-> Missing] :
        c \in CentsVals, t \in InputTokenVals}

Events == {[userEmail |-> e, tokenUsage |-> tu] : e \in {1, 2}, tu \in TokenUsages}

InitSpend ==
    /\ Constructed
    /\ dp = FreshProcessor
    /\ inp \in UNION {[1..n -> Events] : n \in 0..MaxEvents}
    /\ out = NoOut
    /\ pc = "start"

\* usage_events_df = processor.process_usage_events_data({'usageEvents': inp})
SpendProcessEvents ==
    /\ pc = "start"
    /\ out' = [kind |-> "events", usage_events_df |-> ProcessUsageEventsData(inp)]
    /\ pc' = "events"
    /\ UNCHANGED <<config, svc, dp, storage, api, result, cycle, dash, now, inp>>

\* analysis = processor.get_individual_spending_analysis(usage_events_df)
SpendAnalyze ==
    /\ pc = "events"
    /\ out' = [kind |-> "spending", usage_events_df |-> out.usage_events_df,
               analysis |-> GetIndividualSpendingAnalysis(out.usage_events_df)]
    /\ pc' = "spent"
    /\ UNCHANGED <<config, svc, dp, storage, api, result, cycle, dash, now, inp>>

NextSpend == SpendProcessEvents \/ SpendAnalyze

SpecSpend == InitSpend /\ [][NextSpend]_vars

----------------------------------------------------------------------------
(* Specification SpecDaily: process_daily_usage_data on every payload of up *)
(* to MaxDailyRows rows, then get_premium_requests_analysis on its frame.   *)

\* the most rows a daily-usage payload holds
MaxDailyRows == 2

\* a row of the vendor's daily usage for a user: each of the three request counters
\* is left out, null or a count
DailyRecords ==
    {[email |-> e, subscriptionIncludedReqs |-> s, usageBasedReqs |-> u, apiKeyReqs |-> a,
      chatRequests |-> 3, composerRequests |-> Missing,
      totalAccepts |-> Missing, totalApplies |-> Missing,
      totalTabsAccepted |-> Missing, totalTabsShown |-> Missing] :
        e \in {1}, s \in {Missing, PyNone, 0, 2}, u \in {Missing, 0, 1}, a \in {Missing, 3}}

DailyPayloads ==
    {[has_data |-> FALSE, data |-> << >>]} \cup
    {[has_data |-> TRUE, data |-> d] : d \in UNION {[1..n -> DailyRecords] : n \in 0..MaxDailyRows}}

InitDaily ==
    /\ Constructed
    /\ dp = FreshProcessor
    /\ inp \in DailyPayloads
    /\ out = NoOut
    /\ pc = "start"

\* daily_usage_df = processor.process_daily_usage_data(inp)
DailyProcess ==
    /\ pc = "start"
    /\ out' = [kind |-> "daily", daily_usage_df |-> ProcessDailyUsageData(inp)]
    /\ pc' = "daily"
    /\ UNCHANGED <<config, svc, dp, storage, api, result, cycle, dash, now, inp>>

\* analysis = processor.get_premium_requests_analysis(daily_usage_df)
DailyAnalyze ==
    /\ pc = "daily"
    /\ out' = [kind |-> "premium", daily_usage_df |-> out.daily_usage_df,
               analysis |-> GetPremiumRequestsAnalysis(out.daily_usage_df)]
    /\ pc' = "premium"
    /\ UNCHANGED <<config, svc, dp, storage, api, result, cycle, dash, now, inp>>

NextDaily == DailyProcess \/ DailyAnalyze

SpecDaily == InitDaily /\ [][NextDaily]_vars

\* the count a source cell stands for: 0 when it is left out or null
CountOf(v) == IF v = Missing \/ v = PyNone THEN 0 ELSE v

\* C12: every row produced by process_daily_usage_data has total_premium_requests =
\* subscription_requests + usage_based_requests + api_key_requests, the three being
\* the row's source counters with 0 for a counter that was missing; no row is lost.
C12_TotalPremiumIsSumOfThree ==
    (pc = "daily" /\ out.kind = "daily") =>
        /\ Len(out.daily_usage_df.rows) = Len(inp.data)
        /\ \A i \in 1..Len(out.daily_usage_df.rows) :
            LET row == out.daily_usage_df.rows[i]
            IN  /\ row.subscription_requests = CountOf(inp.data[i].subscriptionIncludedReqs)
                /\ row.usage_based_requests = CountOf(inp.data[i].usageBasedReqs)
                /\ row.api_key_requests = CountOf(inp.data[i].apiKeyReqs)
                /\ row.total_premium_requests =
                        row.subscription_requests + row.usage_based_requests
                            + row.api_key_requests

\* a frame with a row that lacks one counter and has the two others, and a row that
\* lacks all three
C12_Witness ==
    /\ pc = "daily" /\ out.kind = "daily"
    /\ \E i, j \in 1..Len(out.daily_usage_df.rows) :
        /\ inp.data[i].subscriptionIncludedReqs = Missing
        /\ inp.data[i].usageBasedReqs = 1
        /\ inp.data[i].apiKeyReqs = 3
        /\ out.daily_usage_df.rows[i].total_premium_requests = 4
        /\ inp.data[j].subscriptionIncludedReqs = PyNone
        /\ inp.data[j].usageBasedReqs = Missing
        /\ inp.data[j].apiKeyReqs = Missing
        /\ out.daily_usage_df.rows[j].total_premium_requests = 0

\* the three categories of get_premium_requests_analysis
PremiumCategories == {"subscription_requests", "usage_based_requests", "api_key_requests"}

\* C18: in get_premium_requests_analysis the percentage of each category is its summed
\* count over the sum of the three categories, x 100, and it is 0 for every category
\* when that sum is 0: no division by zero, no NaN.
C18_PercentagesOfTotalGuarded ==
    (pc = "premium" /\ out.kind = "premium" /\ ~IsEmpty(out.daily_usage_df)) =>
        LET rows == out.daily_usage_df.rows
            S(c) == SumSeq(Column(rows, c))
            total == S("subscription_requests") + S("usage_based_requests")
                        + S("api_key_requests")
        IN  /\ out.analysis.kind = "premium"
            /\ out.analysis.total_requests = total
            /\ \A c \in PremiumCategories :
                /\ out.analysis[c].count = S(c)
                /\ IsFinite(out.analysis[c].percentage)
                /\ total = 0 => out.analysis[c].percentage.num = 0
                /\ total > 0 => RatEq(out.analysis[c].percentage, Rat(S(c) * 100, total))

\* a frame with rows and no request in any category: the three percentages are 0
C18_Witness ==
    /\ pc = "premium"
    /\ out.kind = "premium"
    /\ Len(out.daily_usage_df.rows) = MaxDailyRows
    /\ out.analysis.kind = "premium"
    /\ out.analysis.total_requests = 0
    /\ \A c \in PremiumCategories :
        out.analysis[c].count = 0 /\ out.analysis[c].percentage = Rat(0, 1)

\* a frame with 2 subscription, 1 usage-based and 3 API-key requests: a third, a sixth
\* and a half of the total
C18_Shares ==
    /\ pc = "premium"
    /\ out.kind = "premium"
    /\ out.analysis.kind = "premium"
    /\ out.analysis.total_requests = 6
    /\ RatEq(out.analysis.subscription_requests.percentage, Rat(100, 3))
    /\ RatEq(out.analysis.usage_based_requests.percentage, Rat(100, 6))
    /\ RatEq(out.analysis.api_key_requests.percentage, Rat(50, 1))

----------------------------------------------------------------------------
(* Specification SpecProductivity: process_daily_usage_data on every        *)
(* payload of up to MaxProductivityRows rows whose accept, apply and tab    *)
(* counters are each left out, null, zero or a count.                       *)

MaxProductivityRows == 2

ProductivityRecords ==
    {[email |-> 1, subscriptionIncludedReqs |-> 2, usageBasedReqs |-> Missing,
      apiKeyReqs |-> Missing, chatRequests |-> 3, composerRequests |-> Missing,
      totalAccepts |-> a, totalApplies |-> p, totalTabsAccepted |-> t, totalTabsShown |-> s] :
        a \in {Missing, 0, 2}, p \in {Missing, 0, 4}, t \in {PyNone, 1}, s \in {Missing, 0, 2}}

InitProductivity ==
    /\ Constructed
    /\ dp = FreshProcessor
    /\ inp \in {[has_data |-> TRUE, data |-> d] :
                    d \in UNION {[1..n -> ProductivityRecords] : n \in 0..MaxProductivityRows}}
    /\ out = NoOut
    /\ pc = "start"

NextProductivity == DailyProcess

SpecProductivity == InitProductivity /\ [][NextProductivity]_vars

\* the count a source cell stands for, with the default d for a cell left out or null
CountOr(v, d) == IF v = Missing \/ v = PyNone THEN d ELSE v

----------------------------------------------------------------------------
(* The two user tables of the dashboard, dashboard.py:835-1095:             *)
(* render_comprehensive_top_users and render_least_used_users.  A table is  *)
(* the frame the method has merged, before the columns shown are selected.  *)

\* the rows of the comprehensive table, dashboard.py:863
TopUsersShown == 20

\* the rows of the least used table, dashboard.py:993
LeastUsedShown == 10

\* pd.merge(users_df, usage_df, left_on='id', right_on='user_id', how='inner'): the rows
\* of users_df, in order, each with the usage rows of the user
MergeUsersUsage(users_df, usage_df) ==
    LET Matches(u) == SelectSeq(usage_df.rows, LAMBDA r : r.user_id = u.id)
        Joined(u) == [j \in 1..Len(Matches(u)) |->
                        [id |-> u.id, email |-> u.email, user_id |-> Matches(u)[j].user_id,
                         total_requests |-> Matches(u)[j].total_requests,
                         total_tokens |-> Matches(u)[j].total_tokens,
                         total_sessions |-> Matches(u)[j].total_sessions]]
        F[i \in 0..Len(users_df.rows)] ==
            IF i = 0 THEN << >> ELSE F[i - 1] \o Joined(users_df.rows[i])
    IN  F[Len(users_df.rows)]

\* events_df.groupby('userEmail').agg(sum, sum, sum, count).reset_index() with the two
\* derived columns, dashboard.py:853-860 and 999-1006: one row per email, emails ascending
SpendingData(events_df) ==
    LET emails == SortSet({events_df.rows[i].userEmail : i \in 1..Len(events_df.rows)})
        Of(e) == SelectSeq(events_df.rows, LAMBDA r : r.userEmail = e)
    IN  [k \in 1..Len(emails) |->
            LET g == Of(emails[k])
                cost == SumSeq(Column(g, "cost_cents"))
                inTok == SumSeq(Column(g, "input_tokens"))
                outTok == SumSeq(Column(g, "output_tokens"))
            IN  [userEmail |-> emails[k],
                 cost_cents |-> Rat(cost, 1),
                 input_tokens |-> Rat(inTok, 1),
                 output_tokens |-> Rat(outTok, 1),
                 model_used |-> Rat(Len(g), 1),
                 cost_dollars |-> Rat(cost, 100),
                 event_tokens |-> Rat(inTok + outTok, 1)]]

\* the right-hand columns of a left row without a match: NaN
NoSpending ==
    [cost_cents |-> NaN, input_tokens |-> NaN, output_tokens |-> NaN,
     model_used |-> NaN, cost_dollars |-> NaN, event_tokens |-> NaN]

\* dashboard.py:868-869 and 1010-1011: fillna(0) on cost_dollars and event_tokens
FillSpending(s) ==
    [s EXCEPT !.cost_dollars = FillNa0(s.cost_dollars),
              !.event_tokens = FillNa0(s.event_tokens)]

\* pd.merge(left, spending_data, left_on='email', right_on='userEmail', how='left') and
\* the two fillna, dashboard.py:867-869 and 1009-1011; spending_data has one row per email
MergeSpending(left, spending_data) ==
    [i \in 1..Len(left) |->
        LET hit == {k \in 1..Len(spending_data) : spending_data[k].userEmail = left[i].email}
            right == IF hit = {} THEN NoSpending
                     ELSE LET s == spending_data[CHOOSE k \in hit : TRUE]
                          IN  [cost_cents |-> s.cost_cents, input_tokens |-> s.input_tokens,
                               output_tokens |-> s.output_tokens, model_used |-> s.model_used,
                               cost_dollars |-> s.cost_dollars, event_tokens |-> s.event_tokens]
        IN  [row |-> left[i], matched |-> hit # {}, spending |-> FillSpending(right)]]

RECURSIVE InsertAsc(_, _, _)
InsertAsc(row, s, col) ==
    IF s = << >> THEN <<row>>
    ELSE IF row[col] <= Head(s)[col] THEN <<row>> \o s
    ELSE <<Head(s)>> \o InsertAsc(row, Tail(s), col)

RECURSIVE SortAscBy(_, _)
SortAscBy(rows, col) ==
    IF rows = << >> THEN << >>
    ELSE InsertAsc(Head(rows), SortAscBy(Tail(rows), col), col)

\* nsmallest with keep='last': among equal values the later rows come first
NSmallestKeepLast(rows, n, col) ==
    SubSeq(SortAscBy([i \in 1..Len(rows) |-> rows[Len(rows) + 1 - i]], col),
           1, Min(n, Len(rows)))

\* DataFrame.nsmallest(n, col), keep='first'
NSmallest(rows, n, col) == SubSeq(SortAscBy(rows, col), 1, Min(n, Len(rows)))

\* dashboard.py:845 and 987: both frames are held and have rows
SessionHasData(session) ==
    /\ ~session.users_data.isNone
    /\ ~session.usage_data.isNone
    /\ ~IsEmpty(session.users_data)
    /\ ~IsEmpty(session.usage_data)

\* what a render method leaves on the page: st.info (no data), st.error (an exception
\* in the try block) or the table
Page(kind, status, joined, table) ==
    [kind |-> kind, status |-> status, joined |-> joined, table |-> table]

\* render_comprehensive_top_users, dashboard.py:835-977.  An events frame without rows
\* has no columns (data_processor.py:192), so groupby('userEmail') raises KeyError.
ComprehensiveTopUsers(session) ==
    IF ~SessionHasData(session) THEN Page("top_users", "info", FALSE, << >>)
    ELSE IF ~session.usage_events_df.isNone /\ IsEmpty(session.usage_events_df)
    THEN Page("top_users", "error", FALSE, << >>)
    ELSE LET merged_df == MergeUsersUsage(session.users_data, session.usage_data)
             top_users == NLargest(merged_df, TopUsersShown, "total_requests")
         IN  IF session.usage_events_df.isNone
             THEN Page("top_users", "shown", FALSE, top_users)
             ELSE Page("top_users", "shown", TRUE,
                       MergeSpending(top_users, SpendingData(session.usage_events_df)))

\* render_least_used_users, dashboard.py:979-1095
LeastUsedUsers(session) ==
    IF ~SessionHasData(session) THEN Page("least_used", "info", FALSE, << >>)
    ELSE IF ~session.usage_events_df.isNone /\ IsEmpty(session.usage_events_df)
    THEN Page("least_used", "error", FALSE, << >>)
    ELSE LET merged_df == MergeUsersUsage(session.users_data, session.usage_data)
             least_used == NSmallest(merged_df, LeastUsedShown, "total_requests")
         IN  IF session.usage_events_df.isNone
             THEN Page("least_used", "shown", FALSE, least_used)
             ELSE Page("least_used", "shown", TRUE,
                       MergeSpending(least_used, SpendingData(session.usage_events_df)))

RenderComprehensiveTopUsers ==
    /\ pc = "start"
    /\ out' = ComprehensiveTopUsers(inp)
    /\ pc' = "rendered"
    /\ UNCHANGED <<config, svc, dp, storage, api, result, cycle, dash, now, inp>>

RenderLeastUsedUsers ==
    /\ pc = "start"
    /\ out' = LeastUsedUsers(inp)
    /\ pc' = "rendered"
    /\ UNCHANGED <<config, svc, dp, storage, api, result, cycle, dash, now, inp>>

\* a session state: users 1..n with email = id, a usage row per user
SessionOf(requests, usage_events_df) ==
    [users_data |-> DataFrame([i \in 1..Len(requests) |-> [id |-> i, email |-> i]]),
     usage_data |-> DataFrame([i \in 1..Len(requests) |->
                        [user_id |-> i, total_requests |-> requests[i],
                         total_tokens |-> 50 * requests[i],
                         total_sessions |-> IF requests[i] > 0 THEN 1 ELSE 0]]),
     usage_events_df |-> usage_events_df]


----------------------------------------------------------------------------
(* Specification SpecJoin: one of the two tables is rendered on a session   *)
(* state with up to MaxJoinUsers users and up to MaxJoinEvents events.      *)

MaxJoinUsers == 3
MaxJoinEvents == 2

\* events of the first and the third user
JoinEvents ==
    {[userEmail |-> e, cost_cents |-> c, input_tokens |-> c \div 15,
      output_tokens |-> c \div 30] : e \in {1, 3}, c \in {0, 150}}

JoinEventFrames ==
    {DFNone} \cup
    {DataFrame(s) : s \in UNION {[1..n -> JoinEvents] : n \in 0..MaxJoinEvents}}

JoinSessions ==
    {[users_data |-> DFNone, usage_data |-> DFNone, usage_events_df |-> DFNone]} \cup
    {SessionOf(requests, ev) :
        requests \in UNION {[1..n -> {0, 2}] : n \in 0..MaxJoinUsers},
        ev \in JoinEventFrames}

InitJoin ==
    /\ Constructed
    /\ dp = FreshProcessor
    /\ inp \in JoinSessions
    /\ out = NoOut
    /\ pc = "start"

NextJoin == RenderComprehensiveTopUsers \/ RenderLeastUsedUsers

SpecJoin == InitJoin /\ [][NextJoin]_vars

\* a table with the spending columns was rendered
JoinedShown == pc = "rendered" /\ out.status = "shown" /\ out.joined

\* the left rows of the join: the top 20 or the least 10 of the merged users
LeftRows ==
    LET merged_df == MergeUsersUsage(inp.users_data, inp.usage_data)
    IN  IF out.kind = "top_users" THEN NLargest(merged_df, TopUsersShown, "total_requests")
        ELSE NSmallest(merged_df, LeastUsedShown, "total_requests")

\* the float 0.0, not NaN
IsZero(q) == IsFinite(q) /\ q.num = 0

\* C15: the join of the users' request rows with the spend aggregates keeps every left
\* row, and a user without spend rows has 0, not null, in each numeric field of the
\* right side: cost_dollars, cost_cents, input_tokens, output_tokens, event_tokens and
\* the event count.
C15_UnmatchedUsersGetZeros ==
    JoinedShown =>
        /\ Len(out.table) = Len(LeftRows)
        /\ \A i \in 1..Len(out.table) :
            /\ out.table[i].row = LeftRows[i]
            /\ ~out.table[i].matched =>
                /\ IsZero(out.table[i].spending.cost_dollars)
                /\ IsZero(out.table[i].spending.cost_cents)
                /\ IsZero(out.table[i].spending.input_tokens)
                /\ IsZero(out.table[i].spending.output_tokens)
                /\ IsZero(out.table[i].spending.event_tokens)
                /\ IsZero(out.table[i].spending.model_used)

\* what the join does: every left row is kept, in order; a user without spend rows has
\* 0 in cost_dollars and event_tokens and NaN in the other four fields
C15_UnmatchedUsersGetTwoZeros ==
    JoinedShown =>
        /\ Len(out.table) = Len(LeftRows)
        /\ \A i \in 1..Len(out.table) :
            /\ out.table[i].row = LeftRows[i]
            /\ ~out.table[i].matched =>
                /\ IsZero(out.table[i].spending.cost_dollars)
                /\ IsZero(out.table[i].spending.event_tokens)
                /\ IsNaN(out.table[i].spending.cost_cents)
                /\ IsNaN(out.table[i].spending.input_tokens)
                /\ IsNaN(out.table[i].spending.output_tokens)
                /\ IsNaN(out.table[i].spending.model_used)

\* users {1, 2, 3}, events of users 1 and 3: user 2 is kept with cost_dollars 0
C15_Witness ==
    /\ JoinedShown
    /\ Len(out.table) = 3
    /\ \E i \in 1..3 :
        /\ out.table[i].row.email = 2
        /\ ~out.table[i].matched
        /\ IsZero(out.table[i].spending.cost_dollars)
    /\ \A i \in 1..3 : out.table[i].row.email # 2 =>
        /\ out.table[i].matched
        /\ RatEq(out.table[i].spending.cost_dollars, Rat(3, 2))

----------------------------------------------------------------------------
(* Specification SpecLeast: the least used table is rendered on a session   *)
(* state with up to MaxLeastUsers users and no events frame.                *)

MaxLeastUsers == 11

\* three levels of total_requests for the small batches, two for the large ones
LeastRequests ==
    UNION {[1..n -> {0, 1, 2}] : n \in 0..3}
        \cup UNION {[1..n -> {0, 1}] : n \in 4..MaxLeastUsers}

InitLeast ==
    /\ Constructed
    /\ dp = FreshProcessor
    /\ inp \in {SessionOf(requests, DFNone) : requests \in LeastRequests}
    /\ out = NoOut
    /\ pc = "start"

NextLeast == RenderLeastUsedUsers

SpecLeast == InitLeast /\ [][NextLeast]_vars

\* C17: the least used table has min(n, batch size) rows, n = 10, those with the
\* smallest total_requests, in ascending order, rows of equal value in the order of the
\* input; over strictly descending total_requests its first row is the last user.
C17_BottomNSmallestAscendingStable ==
    (pc = "rendered" /\ out.kind = "least_used" /\ out.status = "shown") =>
        LET rows == MergeUsersUsage(inp.users_data, inp.usage_data)
            res == out.table
            pos == [i \in 1..Len(res) |-> PositionOfUser(rows, res[i].user_id)]
            Before(v, j, w, k) == v < w \/ (v = w /\ j < k)
        IN  /\ Len(res) = Min(LeastUsedShown, Len(rows))
            /\ \A i \in 1..Len(res) : res[i] = rows[pos[i]]
            /\ \A i, k \in 1..Len(res) :
                i < k => Before(res[i].total_requests, pos[i], res[k].total_requests, pos[k])
            /\ \A j \in 1..Len(rows) :
                (\A i \in 1..Len(res) : pos[i] # j)
                    => \A i \in 1..Len(res) :
                            Before(res[i].total_requests, pos[i], rows[j].total_requests, j)
            /\ (\A j \in 2..Len(rows) : rows[j - 1].total_requests > rows[j].total_requests)
                    => res[1].user_id = rows[Len(rows)].user_id

\* eleven users, the first and the last two with a request: the eight without come
\* first, then the first and the tenth user; the eleventh is left out
C17_Witness ==
    /\ pc = "rendered"
    /\ out.kind = "least_used"
    /\ out.status = "shown"
    /\ Column(inp.usage_data.rows, "total_requests") = <<1, 0, 0, 0, 0, 0, 0, 0, 0, 1, 1>>
    /\ Column(out.table, "user_id") = <<2, 3, 4, 5, 6, 7, 8, 9, 1, 10>>

\* three users with total_requests 2, 1, 0: the first row is the third user
C17_ThirdUserFirst ==
    /\ pc = "rendered"
    /\ out.kind = "least_used"
    /\ Column(inp.usage_data.rows, "total_requests") = <<2, 1, 0>>
    /\ out.table[1].user_id = 3

----------------------------------------------------------------------------
(* DataProcessor.get_usage_trends, data_processor.py:432-456, with the      *)
(* default metric 'requests'.  daily_data is a list of records [date,       *)
(* requests]; a date is the number of its day.                              *)

\* rolling(window=7, ...), data_processor.py:444
TrendWindow == 7

\* the mean of all the values up to position i: a window that never drops a value
ExpandingMean(v, i) == Rat(SumSeq(SubSeq(v, 1, i)), i)

\* Series.rolling(window=7, min_periods=1).mean() at position i, line 444
RollingMean(v, i) ==
    LET first == IF i - TrendWindow + 1 > 1 THEN i - TrendWindow + 1 ELSE 1
    IN  Rat(SumSeq(SubSeq(v, first, i)), i - first + 1)

\* Series.pct_change() at position i, line 445: v[i] / v[i-1] - 1, NaN at the first
\* position
PctChange(v, i) ==
    IF i = 1 THEN NaN
    ELSE LET q == FloatDiv(Rat(v[i], 1), Rat(v[i - 1], 1))
         IN  IF IsFinite(q) THEN Rat(q.num - q.den, q.den) ELSE q

\* get_usage_trends without the sort of line 441
GetUsageTrendsUnsorted(daily_data) ==
    IF Len(daily_data) = 0 THEN EmptyDF
    ELSE LET v == Column(daily_data, "requests")
         IN  DataFrame([i \in 1..Len(daily_data) |->
                [date |-> daily_data[i].date,
                 requests |-> daily_data[i].requests,
                 requests_7day_avg |-> RollingMean(v, i),
                 requests_trend |-> FillNa0(PctChange(v, i))]])

GetUsageTrends(daily_data) ==
    IF Len(daily_data) = 0 THEN EmptyDF
    ELSE LET df == SortAscBy(daily_data, "date")
             v == Column(df, "requests")
         IN  DataFrame([i \in 1..Len(df) |->
                [date |-> df[i].date,
                 requests |-> df[i].requests,
                 requests_7day_avg |-> RollingMean(v, i),
                 requests_trend |-> FillNa0(PctChange(v, i))]])

----------------------------------------------------------------------------
(* Specification SpecTrend: get_usage_trends on every series of up to       *)
(* MaxTrendDays days.                                                       *)

MaxTrendDays == 8

\* the permutations of 1..n
Orders(n) == {f \in [1..n -> 1..n] : \A i, j \in 1..n : i # j => f[i] # f[j]}

\* short series over four values, given in any order of the dates; long series over
\* two values, given in the order of the dates or in the reverse order
TrendSeries ==
    UNION {{[i \in 1..n |-> [date |-> o[i], requests |-> v[o[i]]]] :
                v \in [1..n -> {0, 10, 20, 30}], o \in Orders(n)} : n \in 0..3}
    \cup UNION {{[i \in 1..n |-> [date |-> IF up THEN i ELSE n + 1 - i,
                                  requests |-> v[IF up THEN i ELSE n + 1 - i]]] :
                v \in [1..n -> {0, 10}], up \in BOOLEAN} : n \in 4..MaxTrendDays}

InitTrend ==
    /\ Constructed
    /\ dp = FreshProcessor
    /\ inp \in TrendSeries
    /\ out = NoOut
    /\ pc = "start"

UsageTrends ==
    /\ pc = "start"
    /\ out' = [kind |-> "trends", df |-> GetUsageTrends(inp)]
    /\ pc' = "trended"
    /\ UNCHANGED <<config, svc, dp, storage, api, result, cycle, dash, now, inp>>

NextTrend == UsageTrends

SpecTrend == InitTrend /\ [][NextTrend]_vars

\* the value of the day with the k-th date of the series given
ValueOfDay(k) == (CHOOSE r \in {inp[i] : i \in 1..Len(inp)} : r.date = k).requests

\* C19: in get_usage_trends the rows are in the order of the dates and the 7-day average
\* of day i is the mean of the values of the days max(1, i-6)..i: the window is shorter
\* at the start of the series and holds no later day; [10, 20, 30] gives [10, 15, 20].
C19_TrailingSevenDayMean ==
    (pc = "trended" /\ out.kind = "trends") =>
        /\ Len(out.df.rows) = Len(inp)
        /\ \A i \in 1..Len(out.df.rows) :
            LET first == IF i > 6 THEN i - 6 ELSE 1
                row == out.df.rows[i]
            IN  /\ row.date = i
                /\ row.requests = ValueOfDay(i)
                /\ IsFinite(row.requests_7day_avg)
                /\ row.requests_7day_avg.num * (i - first + 1) =
                        row.requests_7day_avg.den
                            * SumSeq([k \in 1..(i - first + 1) |-> ValueOfDay(first + k - 1)])
        /\ Column(out.df.rows, "requests") = <<10, 20, 30>> =>
                /\ RatEq(out.df.rows[1].requests_7day_avg, Rat(10, 1))
                /\ RatEq(out.df.rows[2].requests_7day_avg, Rat(15, 1))
                /\ RatEq(out.df.rows[3].requests_7day_avg, Rat(20, 1))

\* eight days, 10 on the first and 0 after: the average of day 7 is 10/7 and the
\* average of day 8, whose window has left the first day, is 0
C19_Witness ==
    /\ pc = "trended"
    /\ out.kind = "trends"
    /\ Column(out.df.rows, "requests") = <<10, 0, 0, 0, 0, 0, 0, 0>>
    /\ RatEq(out.df.rows[7].requests_7day_avg, Rat(10, 7))
    /\ RatEq(out.df.rows[8].requests_7day_avg, Rat(0, 1))

\* the series given, in the order of its dates
DateSorted == [k \in 1..Len(inp) |-> [date |-> k, requests |-> ValueOfDay(k)]]

\* C21: get_usage_trends takes the days in any order: it is not rejected, and its
\* output on a permutation of a series with distinct dates is its output on the series
\* in the order of the dates.
C21_AnyOrderOfDays ==
    (pc = "trended" /\ out.kind = "trends") =>
        /\ Len(out.df.rows) = Len(inp)
        /\ out.df = GetUsageTrends(DateSorted)
        /\ \A i \in 1..Len(out.df.rows) : out.df.rows[i].date = i

\* three days given as day 3, day 1, day 2 with values 30, 10, 20: the output is the
\* one of the series 10, 20, 30
C21_Witness ==
    /\ pc = "trended"
    /\ out.kind = "trends"
    /\ Column(inp, "date") = <<3, 1, 2>>
    /\ Column(inp, "requests") = <<30, 10, 20>>
    /\ Column(out.df.rows, "requests") = <<10, 20, 30>>
    /\ out.df = GetUsageTrends(DateSorted)

\* C20: in get_usage_trends the change of the first day is 0, the change of a later day
\* is its change relative to the value of the day before, and the change of every day
\* is a defined number, also after a day with value 0.
C20_ChangeDefinedEveryDay ==
    (pc = "trended" /\ out.kind = "trends") =>
        \A i \in 1..Len(out.df.rows) :
            LET row == out.df.rows[i]
            IN  /\ IsFinite(row.requests_trend)
                /\ i = 1 => row.requests_trend.num = 0
                /\ (i > 1 /\ ValueOfDay(i - 1) # 0) =>
                        RatEq(row.requests_trend,
                              Rat(ValueOfDay(i) - ValueOfDay(i - 1), ValueOfDay(i - 1)))

\* what the code does: the change is defined unless the day before has value 0 and
\* the day has not; then it is inf
C20_ChangeInfAfterZeroDay ==
    (pc = "trended" /\ out.kind = "trends") =>
        \A i \in 1..Len(out.df.rows) :
            LET row == out.df.rows[i]
            IN  /\ i = 1 => IsZero(row.requests_trend)
                /\ (i > 1 /\ ValueOfDay(i - 1) # 0) =>
                        /\ IsFinite(row.requests_trend)
                        /\ RatEq(row.requests_trend,
                                 Rat(ValueOfDay(i) - ValueOfDay(i - 1), ValueOfDay(i - 1)))
                /\ (i > 1 /\ ValueOfDay(i - 1) = 0 /\ ValueOfDay(i) = 0) =>
                        IsZero(row.requests_trend)
                /\ (i > 1 /\ ValueOfDay(i - 1) = 0 /\ ValueOfDay(i) # 0) =>
                        IsInf(row.requests_trend)

----------------------------------------------------------------------------
(* DataProcessor.process_users_data, data_processor.py:22-74, with the      *)
(* timestamps of the users.  A raw user is [id, created_at, last_active]; a *)
(* timestamp is [kind, age]: "missing" (no such key, or null), "bad" (a     *)
(* string pd.to_datetime cannot parse, NaT with errors='coerce'), "naive"   *)
(* or "aware" (with a UTC offset), age being the whole days from the        *)
(* timestamp to now.  pd.to_datetime makes a timezone-aware column of       *)
(* aware timestamps and datetime.now() - column (lines 54, 59) raises       *)
(* TypeError on it: the except branch returns the raw frame (lines 69-74).  *)

\* timedelta(days=90), data_processor.py:35
DefaultCreatedAge == 90

\* timedelta(days=1), data_processor.py:39
DefaultActiveAge == 1

NoTimestamp == [kind |-> "missing", age |-> 0]
BadTimestamp == [kind |-> "bad", age |-> 0]
NaiveTimestamp(age) == [kind |-> "naive", age |-> age]
AwareTimestamp(age) == [kind |-> "aware", age |-> age]

IsTimestamp(ts) == ts.kind \in {"naive", "aware"}

\* _categorize_activity with < for <=
CategorizeActivityStrict(days_since_active) ==
    IF days_since_active < 1 THEN "Very Active"
    ELSE IF days_since_active < 7 THEN "Active"
    ELSE IF days_since_active < 30 THEN "Moderately Active"
    ELSE "Inactive"

\* DataProcessor._categorize_activity, data_processor.py:584-593
CategorizeActivity(days_since_active) ==
    IF days_since_active <= 1 THEN "Very Active"
    ELSE IF days_since_active <= 7 THEN "Active"
    ELSE IF days_since_active <= 30 THEN "Moderately Active"
    ELSE "Inactive"

\* lines 34-51 on one cell: a column set to the default when no row has the key
\* (lines 34-39), pd.to_datetime(errors='coerce') and fillna(default) (lines 45-51)
FilledTimestamp(ts, default_age) ==
    IF ts.kind \in {"missing", "bad"} THEN NaiveTimestamp(default_age) ELSE ts

\* lines 34-63: a row of the normalized frame
TimedUserRow(u) ==
    LET created_at == FilledTimestamp(u.created_at, DefaultCreatedAge)
        last_active == FilledTimestamp(u.last_active, DefaultActiveAge)
    IN  [id |-> u.id, created_at |-> created_at, last_active |-> last_active,
         days_since_created |-> created_at.age,
         days_since_active |-> last_active.age,
         activity_level |-> CategorizeActivity(last_active.age)]

\* lines 54 and 59 raise on a timezone-aware column
TimedUsersRaise(users_data) ==
    \E i \in 1..Len(users_data) :
        users_data[i].created_at.kind = "aware" \/ users_data[i].last_active.kind = "aware"

\* process_users_data: the frame returned and whether the try block raised
ProcessTimedUsers(users_data) ==
    IF Len(users_data) = 0 THEN [ret |-> EmptyDF, raised |-> FALSE]
    ELSE IF TimedUsersRaise(users_data)
    THEN [ret |-> DataFrame(users_data), raised |-> TRUE]
    ELSE [ret |-> DataFrame([i \in 1..Len(users_data) |-> TimedUserRow(users_data[i])]),
          raised |-> FALSE]

----------------------------------------------------------------------------
(* Specification SpecUsers: process_users_data on every list of up to       *)
(* MaxTimedUsers users.                                                     *)

MaxTimedUsers == 2

CreatedTimestamps == {NoTimestamp, BadTimestamp, NaiveTimestamp(50), AwareTimestamp(50)}

\* last_active on both sides of each threshold of the activity levels
ActiveTimestamps ==
    {NoTimestamp, BadTimestamp, AwareTimestamp(1)}
        \cup {NaiveTimestamp(d) : d \in {0, 1, 2, 7, 8, 30, 31}}

TimedUsers ==
    UNION {{[i \in 1..n |-> [id |-> i, created_at |-> c[i], last_active |-> a[i]]] :
                c \in [1..n -> CreatedTimestamps], a \in [1..n -> ActiveTimestamps]} :
            n \in 0..MaxTimedUsers}

InitUsers ==
    /\ Constructed
    /\ dp = FreshProcessor
    /\ inp \in TimedUsers
    /\ out = NoOut
    /\ pc = "start"

UsersProcess ==
    /\ pc = "start"
    /\ LET r == ProcessTimedUsers(inp)
       IN  /\ out' = [kind |-> "users", ret |-> r.ret, raised |-> r.raised]
           /\ dp' = IF r.raised \/ Len(inp) = 0 THEN dp ELSE [dp EXCEPT !.users_df = r.ret]
    /\ pc' = "users"
    /\ UNCHANGED <<config, svc, storage, api, result, cycle, dash, now, inp>>

NextUsers == UsersProcess

SpecUsers == InitUsers /\ [][NextUsers]_vars

\* C24: every row process_users_data returns has created_at and last_active set: now -
\* 90 days where created_at is missing or unparseable, now - 1 day where last_active
\* is, and the given timestamp where it is valid.
C24_TimestampsSetOnEveryRow ==
    (pc = "users" /\ out.kind = "users") =>
        /\ Len(out.ret.rows) = Len(inp)
        /\ \A i \in 1..Len(out.ret.rows) :
            LET row == out.ret.rows[i]
            IN  /\ IsTimestamp(row.created_at)
                /\ IsTimestamp(row.last_active)
                /\ row.created_at =
                        IF IsTimestamp(inp[i].created_at) THEN inp[i].created_at
                        ELSE NaiveTimestamp(DefaultCreatedAge)
                /\ row.last_active =
                        IF IsTimestamp(inp[i].last_active) THEN inp[i].last_active
                        ELSE NaiveTimestamp(DefaultActiveAge)

\* what the code does: the claim's rows, unless a timestamp of the list has a UTC
\* offset; then the list is returned as it came
C24_TimestampsSetUnlessAware ==
    (pc = "users" /\ out.kind = "users") =>
        IF TimedUsersRaise(inp) THEN out.raised /\ out.ret.rows = inp
        ELSE /\ ~out.raised
             /\ Len(out.ret.rows) = Len(inp)
             /\ \A i \in 1..Len(out.ret.rows) :
                    LET row == out.ret.rows[i]
                    IN  /\ row.created_at =
                                IF IsTimestamp(inp[i].created_at) THEN inp[i].created_at
                                ELSE NaiveTimestamp(DefaultCreatedAge)
                        /\ row.last_active =
                                IF IsTimestamp(inp[i].last_active) THEN inp[i].last_active
                                ELSE NaiveTimestamp(DefaultActiveAge)

\* the level of d days since the last activity, by the thresholds 1, 7, 30
LevelsOf(d) ==
    {l \in {"Very Active", "Active", "Moderately Active", "Inactive"} :
        \/ l = "Very Active" /\ d <= 1
        \/ l = "Active" /\ 1 < d /\ d <= 7
        \/ l = "Moderately Active" /\ 7 < d /\ d <= 30
        \/ l = "Inactive" /\ d > 30}

\* C25: every row of the normalized users frame has the activity_level of its
\* days_since_active d: Very Active for d <= 1, Active for 1 < d <= 7, Moderately Active
\* for 7 < d <= 30, Inactive for d > 30; one level and no other applies to a row.
C25_ActivityLevelByThresholds ==
    (pc = "users" /\ out.kind = "users" /\ ~out.raised) =>
        /\ Len(out.ret.rows) = Len(inp)
        /\ dp.users_df = (IF Len(inp) = 0 THEN DFNone ELSE out.ret)
        /\ \A i \in 1..Len(out.ret.rows) :
            LET row == out.ret.rows[i]
            IN  /\ row.days_since_active =
                        (IF IsTimestamp(inp[i].last_active) THEN inp[i].last_active.age
                         ELSE DefaultActiveAge)
                /\ LevelsOf(row.days_since_active) = {row.activity_level}

\* a user last active 7 days ago is Active, one last active 30 days ago Moderately Active
C25_Witness ==
    /\ pc = "users"
    /\ ~out.raised
    /\ Len(out.ret.rows) = 2
    /\ out.ret.rows[1].days_since_active = 7
    /\ out.ret.rows[1].activity_level = "Active"
    /\ out.ret.rows[2].days_since_active = 30
    /\ out.ret.rows[2].activity_level = "Moderately Active"

----------------------------------------------------------------------------
(* Specification SpecNormalizers: one of the four process_* methods of a    *)
(* new DataProcessor is called on an input made for it, empty or not.       *)

NormalizerCalls ==
    {[fn |-> "process_users_data", arg |-> a] : a \in TimedUsers}
        \cup {[fn |-> "process_usage_data", arg |-> a] : a \in BatchesOver(AnalyzeData)}
        \cup {[fn |-> "process_daily_usage_data", arg |-> a] : a \in DailyPayloads}
        \cup {[fn |-> "process_usage_events_data", arg |-> a] : a \in EventLists}

InitNormalizers ==
    /\ Constructed
    /\ dp = FreshProcessor
    /\ inp \in NormalizerCalls
    /\ out = NoOut
    /\ pc = "start"

\* what a process_* method returned and whether its try block raised
Returned(fn, ret, raised) == [kind |-> "returned", fn |-> fn, ret |-> ret, raised |-> raised]

CallProcessUsersData ==
    /\ pc = "start"
    /\ inp.fn = "process_users_data"
    /\ LET r == ProcessTimedUsers(inp.arg)
       IN  /\ out' = Returned(inp.fn, r.ret, r.raised)
           /\ dp' = IF r.raised \/ Len(inp.arg) = 0 THEN dp ELSE [dp EXCEPT !.users_df = r.ret]
    /\ pc' = "returned"
    /\ UNCHANGED <<config, svc, storage, api, result, cycle, dash, now, inp>>

CallProcessUsageData ==
    /\ pc = "start"
    /\ inp.fn = "process_usage_data"
    /\ LET r == ProcessUsageData(inp.arg, dp.usage_df)
       IN  /\ out' = Returned(inp.fn, r.ret, r.raised)
           /\ dp' = [dp EXCEPT !.usage_df = r.usage_df]
    /\ pc' = "returned"
    /\ UNCHANGED <<config, svc, storage, api, result, cycle, dash, now, inp>>

CallProcessDailyUsageData ==
    /\ pc = "start"
    /\ inp.fn = "process_daily_usage_data"
    /\ out' = Returned(inp.fn, ProcessDailyUsageData(inp.arg), FALSE)
    /\ pc' = "returned"
    /\ UNCHANGED <<config, svc, dp, storage, api, result, cycle, dash, now, inp>>

CallProcessUsageEventsData ==
    /\ pc = "start"
    /\ inp.fn = "process_usage_events_data"
    /\ out' = Returned(inp.fn, ProcessUsageEventsData(inp.arg), FALSE)
    /\ pc' = "returned"
    /\ UNCHANGED <<config, svc, dp, storage, api, result, cycle, dash, now, inp>>

NextNormalizers ==
    \/ CallProcessUsersData
    \/ CallProcessUsageData
    \/ CallProcessDailyUsageData
    \/ CallProcessUsageEventsData

SpecNormalizers == InitNormalizers /\ [][NextNormalizers]_vars

\* the input of the call has nothing in it: [], {}, a payload without 'data' or with
\* no rows, no events
EmptyInput ==
    IF inp.fn = "process_daily_usage_data"
    THEN ~inp.arg.has_data \/ Len(inp.arg.data) = 0
    ELSE Len(inp.arg) = 0

\* C26: each of process_users_data, process_usage_data, process_daily_usage_data and
\* process_usage_events_data, given an input with nothing in it, returns an empty frame
\* and does not fail.
C26_EmptyInputEmptyResult ==
    (pc = "returned" /\ out.kind = "returned" /\ EmptyInput) =>
        /\ ~out.raised
        /\ ~out.ret.isNone
        /\ IsEmpty(out.ret)

\* process_usage_data({}) has returned an empty frame, which the processor now holds
C26_Witness ==
    /\ pc = "returned"
    /\ out.fn = "process_usage_data"
    /\ inp.arg = << >>
    /\ ~out.raised
    /\ out.ret = EmptyDF
    /\ dp.usage_df = EmptyDF

\* the three other methods have returned an empty frame for an empty input
C26_WitnessUsers == pc = "returned" /\ out.fn = "process_users_data" /\ EmptyInput /\ out.ret = EmptyDF
C26_WitnessDaily ==
    pc = "returned" /\ out.fn = "process_daily_usage_data" /\ EmptyInput
        /\ inp.arg.has_data /\ out.ret = EmptyDF
C26_WitnessEvents ==
    pc = "returned" /\ out.fn = "process_usage_events_data" /\ EmptyInput /\ out.ret = EmptyDF

----------------------------------------------------------------------------
(* Specification SpecApi: a fetch method of a CursorAPIClient is called,     *)
(* with every response of the vendor API (the client keeps nothing from one *)
(* call to the next, so one call is a whole run).                           *)

VendorUser(i, email, ts) == [id |-> i, email |-> email, ts |-> ts, origin |-> "vendor"]

\* the members of a response are alike: with an email and no created_at/last_active
\* ("absent"), with an email and timezone-aware timestamps such as
\* 2023-01-01T00:00:00Z ("aware"), or without an email
MemberKinds == {<<TRUE, "absent">>, <<TRUE, "aware">>, <<FALSE, "absent">>}

MemberResponses ==
    {Failed, Ok(<< >>)} \cup
    {Ok([i \in 1..n |-> VendorUser(i, k[1], k[2])]) : n \in 1..MaxMembers, k \in MemberKinds}

VendorDailyRow(email) ==
    [email |-> email, origin |-> "vendor", isActive |-> TRUE,
     chatRequests |-> 3, composerRequests |-> 1]

DailyResponses == {Failed, Ok(<< >>), Ok(<<VendorDailyRow(1)>>)}

TokenUsageNull == [kind |-> "null"]
TokenUsageGood ==
    [kind |-> "dict", totalCents |-> 5, inputTokens |-> 1000, outputTokens |-> Missing,
     cacheWriteTokens |-> Missing, cacheReadTokens |-> Missing]

VendorEvent(email, day, label, tu) ==
    [userEmail |-> email, origin |-> "vendor", timestamp |-> day, kindLabel |-> label,
     tokenUsage |-> tu]

VendorEvents ==
    {VendorEvent(e, d, l, tu) :
        e \in {1, 2}, d \in {1, 2}, l \in {"Usage-based", "Included in Business"},
        tu \in {TokenUsageNull, TokenUsageGood}}

EventsResponses == {Failed} \cup {Ok(ev) : ev \in UNION {[1..n -> VendorEvents] : n \in 0..MaxEvents}}

SpendingResponses ==
    {Failed, Ok(<< >>),
     Ok(<<[totalSpent |-> 7, usageBased |-> 3, subscription |-> 4, origin |-> "vendor"]>>)}

InitApi ==
    /\ Constructed
    /\ dp = FreshProcessor
    /\ inp = << >>
    /\ out = NoOut
    /\ pc = "start"

\* what a fetch method handed to its caller
Fetched(source, resp, rows) ==
    [kind |-> "fetch", source |-> source, failed |-> resp.failed, rows |-> rows]

Requested(endpoint, resp) ==
    [NoApi EXCEPT !.endpoints = {endpoint},
                  !.failed = IF resp.failed THEN {endpoint} ELSE {}]

ApiGetTeamMembers(resp) ==
    /\ pc = "start"
    /\ out' = Fetched("get_team_members", resp, GetTeamMembers(resp))
    /\ api' = Requested(MembersEndpoint, resp)
    /\ pc' = "fetched"
    /\ UNCHANGED <<config, svc, dp, storage, result, cycle, dash, now, inp>>

ApiGetDailyUsageData(resp) ==
    /\ pc = "start"
    /\ out' = Fetched("get_daily_usage_data", resp, GetDailyUsageData(resp))
    /\ api' = Requested(DailyEndpoint, resp)
    /\ pc' = "fetched"
    /\ UNCHANGED <<config, svc, dp, storage, result, cycle, dash, now, inp>>

ApiGetUsageEvents(resp) ==
    /\ pc = "start"
    /\ out' = Fetched("get_usage_events", resp, GetUsageEvents(resp))
    /\ api' = Requested(EventsEndpoint, resp)
    /\ pc' = "fetched"
    /\ UNCHANGED <<config, svc, dp, storage, result, cycle, dash, now, inp>>

ApiGetSpendingData(resp) ==
    /\ pc = "start"
    /\ out' = Fetched("get_spending_data", resp, GetSpendingData(resp))
    /\ api' = Requested(SpendingEndpoint, resp)
    /\ pc' = "fetched"
    /\ UNCHANGED <<config, svc, dp, storage, result, cycle, dash, now, inp>>

NextApi ==
    \/ \E resp \in MemberResponses : ApiGetTeamMembers(resp)
    \/ \E resp \in DailyResponses : ApiGetDailyUsageData(resp)
    \/ \E resp \in EventsResponses : ApiGetUsageEvents(resp)
    \/ \E resp \in SpendingResponses : ApiGetSpendingData(resp)

SpecApi == InitApi /\ [][NextApi]_vars

\* C2: when the request of a fetch method fails, the result the method hands to the
\* pipeline has zero rows, so that every row handed over came from the vendor API.
C2_FailedFetchZeroRows ==
    (out.kind = "fetch" /\ out.failed) =>
        /\ Len(out.rows) = 0
        /\ \A i \in 1..Len(out.rows) : out.rows[i].origin = "vendor"

----------------------------------------------------------------------------
(* DataProcessor.process_users_data, data_processor.py:22-74.  A raw user   *)
(* is [id, email, ts, origin]; ts tells what its created_at/last_active     *)
(* are: "absent", "naive" (isoformat of a naive datetime) or "aware" (an    *)
(* ISO timestamp with a UTC offset).  pd.to_datetime makes an aware column  *)
(* of aware timestamps, and datetime.now() - column (lines 54, 59) then     *)
(* raises TypeError: the except branch returns the raw frame (lines         *)
(* 69-74) and line 66 is skipped.                                           *)

UsersRaises(users_data) == \E i \in 1..Len(users_data) : users_data[i].ts = "aware"

\* lines 30-63: a row of the normalized frame
UserRow(u) ==
    [id |-> u.id, origin |-> u.origin, normalized |-> TRUE,
     created_at |-> IF u.ts = "absent" THEN "default" ELSE "given",
     last_active |-> IF u.ts = "absent" THEN "default" ELSE "given"]

\* lines 66-67: self.users_df = df; return df
AssignedUsers(df) == [ret |-> df, users_df |-> df, raised |-> FALSE]

\* The call self.process_users_data(users_data) on a processor whose users_df is
\* held: ret is what it returns, users_df what the processor holds afterwards.
ProcessUsersData(users_data, held) ==
    IF Len(users_data) = 0
    THEN [ret |-> EmptyDF, users_df |-> held, raised |-> FALSE]
    ELSE IF UsersRaises(users_data)
    THEN [ret |-> DataFrame(users_data), users_df |-> held, raised |-> TRUE]
    ELSE AssignedUsers(DataFrame([i \in 1..Len(users_data) |-> UserRow(users_data[i])]))

----------------------------------------------------------------------------
(* The vendor's answers during one entry-point call:                        *)
(*   members  its response to /teams/members (every request of the call     *)
(*            gets the same one)                                            *)
(*   events   for the i-th user of the list, its response to the events     *)
(*            request of get_user_usage: "failed", "good" (one well-formed  *)
(*            event) or "bad" (one event whose tokenUsage is null)          *)
(*   team     its response to the team-wide requests (daily usage, all      *)
(*            events, spending): "failed", "empty" or "rows"                *)
(*   rand     what the random draws of the mock generators take             *)

\* the most entry-point calls of a run
MaxCalls == 2

MaxList == IF MaxMembers >= MaxMockRows THEN MaxMembers ELSE MaxMockRows

EventKinds == {"failed", "good", "bad"}
TeamKinds == {"failed", "empty", "rows"}

UserEventsResponse(kind, email) ==
    CASE kind = "failed" -> Failed
      [] kind = "good" -> Ok(<<VendorEvent(email, 1, "Usage-based", TokenUsageGood)>>)
      [] kind = "bad" -> Ok(<<VendorEvent(email, 1, "Usage-based", TokenUsageNull)>>)

TeamDaily(team) ==
    CASE team = "failed" -> Failed
      [] team = "empty" -> Ok(<< >>)
      [] team = "rows" -> Ok(<<VendorDailyRow(1)>>)

TeamEvents(team) == IF team = "failed" THEN Failed ELSE Ok(<< >>)

\* a field that no request of the call reads has one value
CanonicalEnv(e) ==
    LET users == GetTeamMembers(e.members)
        lookups == Len(users) > 0 /\ users[1].email
    IN  /\ \A i \in 1..MaxList : (i > Len(users) \/ ~lookups) => e.events[i] = "failed"
        /\ (Len(users) = 0 \/ lookups) => e.rand = "low"

Envs ==
    {e \in [members : MemberResponses, events : [1..MaxList -> EventKinds],
            team : TeamKinds, rand : {"low", "high"}, disk : {"ok"}] : CanonicalEnv(e)}

\* without an API key the Authorization header is Basic base64("None:")
\* (cursor_api.py:25) and the vendor refuses every request
Unauthorized(e) ==
    /\ e.members = Failed
    /\ \A i \in 1..MaxList : e.events[i] = "failed"
    /\ e.team = "failed"

EnvsFor(cfg) == IF cfg.CURSOR_API_KEY THEN Envs ELSE {e \in Envs : Unauthorized(e)}

\* the answers to a call that issues no request, and to a call whose only requests
\* are team-wide, or go to /teams/members
NoAnswers == {e \in Envs : Unauthorized(e)}
TeamAnswers(cfg) ==
    {e \in EnvsFor(cfg) :
        e.members = Failed /\ \A i \in 1..MaxList : e.events[i] = "failed"}
MemberAnswers(cfg) ==
    {e \in EnvsFor(cfg) :
        /\ \A i \in 1..MaxList : e.events[i] = "failed"
        /\ e.team = "failed"
        /\ e.rand = "low"}

----------------------------------------------------------------------------
(* CursorDataService, data_service.py.                                      *)

\* the calls self.api_client.get_user_usage(user_id) of the loop, one per user
UserFetches(users_data, env) ==
    [i \in 1..Len(users_data) |->
        [user_id |-> users_data[i].id,
         r |-> GetUserUsage(users_data[i].id, GetTeamMembers(env.members),
                            UserEventsResponse(env.events[i], users_data[i].id), env.rand)]]

RaisedUsers(fetches) == {fetches[i].user_id : i \in {j \in 1..Len(fetches) : fetches[j].r.raised}}

\* _async_fetch_usage_data, data_service.py:131-144: get_bulk_user_usage does not exist
\* (AttributeError, line 134), so the fallback loop runs; a user whose fetch raises
\* gets no entry (lines 140-143)
AsyncFetchUsageData(fetches) ==
    LET ok == SelectSeq(fetches, LAMBDA f : ~f.r.raised)
    IN  [i \in 1..Len(ok) |-> [user_id |-> ok[i].user_id, data |-> ok[i].r.data]]

\* the requests of the per-user loop and which of them failed
LookupEndpoints(users_data, env) ==
    IF Len(users_data) = 0 THEN {}
    ELSE IF users_data[1].email THEN {MembersEndpoint, EventsEndpoint}
    ELSE {MembersEndpoint}

LookupFailed(users_data, env) ==
    (IF env.members.failed THEN {MembersEndpoint} ELSE {}) \cup
    (IF /\ Len(users_data) > 0
        /\ users_data[1].email
        /\ \E i \in 1..Len(users_data) : env.events[i] = "failed"
     THEN {EventsEndpoint} ELSE {})

TeamEndpoints == {DailyEndpoint, EventsEndpoint}
TeamFailed(env) == IF env.team = "failed" THEN TeamEndpoints ELSE {}

\* _fetch_organization_analytics, data_service.py:146-158, with
\* _process_org_usage_from_daily and _generate_analytics_from_data
\* (cursor_api.py:268-298)
FetchOrganizationAnalytics(env) ==
    LET data == GetDailyUsageData(TeamDaily(env.team))
    IN  [total_chat_requests |-> SumSeq(Column(data, "chatRequests")),
         total_composer_requests |-> SumSeq(Column(data, "composerRequests")),
         total_days |-> Len(data),
         total_usage_events |-> 0]

\* analytics_data: the summary statistics and, from line 176, the organization analytics
Analytics(stats, org_analytics) ==
    [kind |-> "analytics", stats |-> stats, organization_analytics |-> org_analytics]

ErrorResult(message) == [call |-> "fetch_all_data", status |-> "error", message |-> message]

SuccessResult(users_df, usage_df, from_cache) ==
    [call |-> "fetch_all_data", status |-> "success",
     users_count |-> LenOrZero(users_df), usage_count |-> LenOrZero(usage_df),
     from_cache |-> from_cache]

\* the processor after process_users_data returned u and process_usage_data returned g
Processor(u, g) == [users_df |-> u.users_df, usage_df |-> g.usage_df]

\* storage.py:23-36 and 77-89: save_users_data and save_cache catch the error of a
\* file that cannot be opened for writing and return False; the file stays as it was
SaveUsersData(users_file, users_data, disk) ==
    IF disk = "users_unwritable" THEN users_file ELSE File(users_data)

SaveCache(cache_fresh, disk) == IF disk = "cache_unwritable" THEN cache_fresh ELSE TRUE

\* data_service.py:166-200 once the two tables are processed (u and g); lines 179,
\* 180 and 188 drop what the three saves return
Stored(S, u, g, users_data, usage_data, org_analytics, a, t, disk) ==
    [svc |-> [S.svc EXCEPT !.users_df = u.ret, !.usage_df = g.ret,
                           !.analytics_data =
                                Analytics(ExportSummaryStats(g.usage_df), org_analytics),
                           !.last_refresh = t],
     dp |-> Processor(u, g),
     storage |-> [users_file |-> SaveUsersData(S.storage.users_file, users_data, disk),
                  usage_file |-> File(usage_data),
                  cache_fresh |-> SaveCache(S.storage.cache_fresh, disk)],
     cycle |-> [ran |-> TRUE, users_data |-> users_data, usage_data |-> usage_data],
     api |-> a,
     result |-> SuccessResult(u.ret, g.ret, FALSE)]

\* _process_and_store_data, data_service.py:160-200, on the state S = [svc, dp,
\* storage, cycle]; last_refresh is set by fetch_all_data (line 96) at time t
ProcessAndStoreData(S, users_data, usage_data, org_analytics, a, t, disk) ==
    Stored(S, ProcessUsersData(users_data, S.dp.users_df),
           ProcessUsageData(usage_data, S.dp.usage_df),
           users_data, usage_data, org_analytics, a, t, disk)

\* data_service.py:213-227 once the two tables are processed (u and g)
Reloaded(S, u, g, users_data, usage_data) ==
    [svc |-> [S.svc EXCEPT !.users_df = u.ret, !.usage_df = g.ret,
                           !.analytics_data = ExportSummaryStats(g.usage_df)],
     dp |-> Processor(u, g),
     storage |-> S.storage,
     cycle |-> [ran |-> TRUE, users_data |-> users_data, usage_data |-> usage_data],
     api |-> NoApi,
     result |-> SuccessResult(u.ret, g.ret, TRUE)]

\* data_service.py:209-227 on the loaded files
LoadCached(S, users_data, usage_data) ==
    IF Len(users_data) = 0 \/ Len(usage_data) = 0
    THEN [svc |-> S.svc, dp |-> S.dp, storage |-> S.storage, cycle |-> S.cycle,
          api |-> NoApi, result |-> ErrorResult("No cached data available")]
    ELSE Reloaded(S, ProcessUsersData(users_data, S.dp.users_df),
                  ProcessUsageData(usage_data, S.dp.usage_df), users_data, usage_data)

\* storage.py:38-49: load_users_data is None for a missing file and for a file that
\* cannot be read
LoadUsersData(users_file, disk) ==
    IF disk = "users_unreadable" THEN << >> ELSE users_file.data

\* _load_cached_data, data_service.py:202-231
LoadCachedData(S, disk) ==
    LoadCached(S, LoadUsersData(S.storage.users_file, disk), S.storage.usage_file.data)

\* what the client did up to the per-user loop
LookupApi(users_data, usage_data, fetches, env) ==
    [endpoints |-> {MembersEndpoint} \cup LookupEndpoints(users_data, env),
     failed |-> LookupFailed(users_data, env),
     fetched |-> TRUE, users_data |-> users_data, usage_data |-> usage_data,
     raised |-> RaisedUsers(fetches)]

\* data_service.py:86-99 if last_refresh were set before the usage data is looked at
FetchedUsageStamped(S, users_data, usage_data, a1, env, t) ==
    IF Len(usage_data) = 0
    THEN [svc |-> [S.svc EXCEPT !.last_refresh = t], dp |-> S.dp, storage |-> S.storage,
          cycle |-> S.cycle, api |-> a1,
          result |-> ErrorResult("Failed to fetch usage data")]
    ELSE ProcessAndStoreData(S, users_data, usage_data, FetchOrganizationAnalytics(env),
                             [a1 EXCEPT !.endpoints = @ \cup TeamEndpoints,
                                        !.failed = @ \cup TeamFailed(env)], t, env.disk)

\* data_service.py:86-99, after _fetch_usage_data returned usage_data
FetchedUsage(S, users_data, usage_data, a1, env, t) ==
    IF Len(usage_data) = 0
    THEN [svc |-> S.svc, dp |-> S.dp, storage |-> S.storage, cycle |-> S.cycle,
          api |-> a1, result |-> ErrorResult("Failed to fetch usage data")]
    ELSE ProcessAndStoreData(S, users_data, usage_data, FetchOrganizationAnalytics(env),
                             [a1 EXCEPT !.endpoints = @ \cup TeamEndpoints,
                                        !.failed = @ \cup TeamFailed(env)], t, env.disk)

\* _fetch_usage_data, data_service.py:115-129, from the calls of its loop
FetchUsageData(S, users_data, fetches, env, t) ==
    FetchedUsage(S, users_data, AsyncFetchUsageData(fetches),
                 LookupApi(users_data, AsyncFetchUsageData(fetches), fetches, env), env, t)

\* data_service.py:81-99, after _fetch_users_data returned users_data
FetchedUsers(S, users_data, env, t) ==
    IF Len(users_data) = 0
    THEN [svc |-> S.svc, dp |-> S.dp, storage |-> S.storage, cycle |-> S.cycle,
          api |-> [endpoints |-> {MembersEndpoint},
                   failed |-> IF env.members.failed THEN {MembersEndpoint} ELSE {},
                   fetched |-> TRUE, users_data |-> users_data, usage_data |-> << >>,
                   raised |-> {}],
          result |-> ErrorResult("Failed to fetch users data")]
    ELSE FetchUsageData(S, users_data, UserFetches(users_data, env), env, t)

\* the fetch of fresh data, data_service.py:73-99
FetchFresh(S, env, t) ==
    FetchedUsers([S EXCEPT !.svc.api_client = TRUE], GetTeamMembers(env.members), env, t)

\* fetch_all_data if a valid cache were used whatever force_refresh says
FetchAllDataCallCacheFirst(S, force_refresh, env, t) ==
    IF S.storage.cache_fresh
    THEN LoadCachedData(S, env.disk)
    ELSE FetchFresh(S, env, t)

\* fetch_all_data, data_service.py:65-103, with storage.is_cache_valid (storage.py:103-116)
FetchAllDataCall(S, force_refresh, env, t) ==
    IF ~force_refresh /\ S.storage.cache_fresh
    THEN LoadCachedData(S, env.disk)
    ELSE FetchFresh(S, env, t)

----------------------------------------------------------------------------
(* CursorDashboard, dashboard.py.                                           *)

\* lines 155-191: the emails of the daily rows and of the events, in sorted order
ExtractedEmails(daily_data, events) ==
    SortSet({daily_data[i].email : i \in 1..Len(daily_data)}
                \cup {events[i].userEmail : i \in 1..Len(events)})

\* lines 225-262: the usage entry made up for an email from its daily rows
ExtractedUsage(email, daily_data) ==
    LET mine == SelectSeq(daily_data, LAMBDA day : day.email = email)
        total_requests ==
            SumSeq(Column(mine, "chatRequests")) + SumSeq(Column(mine, "composerRequests"))
    IN  [user_id |-> email,
         data |->
            [kind |-> "metrics",
             metrics |->
                [total_sessions |-> Len(mine),
                 total_requests |-> total_requests,
                 total_tokens |-> total_requests * 1000,
                 unique_days_active |-> Len(SelectSeq(mine, LAMBDA day : day.isActive)),
                 avg_session_duration |-> 120,
                 feature_chat |-> SumSeq(Column(mine, "chatRequests"))]]]

\* the data directory after save_users_data and save_usage_data
Saved(st, users, usage) == [st EXCEPT !.users_file = File(users), !.usage_file = File(usage)]

\* dashboard.py:155-284: no team member came back, the users are the emails of the
\* daily rows and of the events
LoadExtracted(st, emails, daily_data, extracted_users, usage_data, env) ==
    [none |-> FALSE, users_data |-> extracted_users, usage_data |-> usage_data,
     storage |-> Saved(st, extracted_users, usage_data), api_client |-> TRUE,
     api |-> [endpoints |-> {MembersEndpoint, DailyEndpoint, EventsEndpoint, SpendingEndpoint},
              failed |-> (IF env.team = "failed"
                          THEN {DailyEndpoint, EventsEndpoint, SpendingEndpoint}
                          ELSE {}),
              fetched |-> TRUE, users_data |-> << >>, usage_data |-> usage_data,
              raised |-> {}]]

ExtractedUsers(emails) ==
    [k \in 1..Len(emails) |->
        [id |-> emails[k], email |-> TRUE, ts |-> "naive", origin |-> "extracted"]]

LoadFromDaily(st, emails, daily_data, env) ==
    LoadExtracted(st, emails, daily_data, ExtractedUsers(emails),
                  [k \in 1..Len(emails) |-> ExtractedUsage(emails[k], daily_data)], env)

\* dashboard.py:124-153: the per-user loop (lines 127-129) has no try of its own, a
\* call that raises leaves load_data through its outer except (lines 280-284)
LoadFromMembers(st, users_data, fetches, usage_data, a0) ==
    IF RaisedUsers(fetches) # {}
    THEN [none |-> TRUE, users_data |-> << >>, usage_data |-> << >>,
          storage |-> st, api_client |-> TRUE, api |-> [a0 EXCEPT !.usage_data = << >>]]
    ELSE [none |-> FALSE, users_data |-> users_data, usage_data |-> usage_data,
          storage |-> Saved(st, users_data, usage_data), api_client |-> TRUE, api |-> a0]

LoadFetched(st, users_data, fetches, daily_data, env) ==
    IF Len(users_data) > 0
    THEN LoadFromMembers(st, users_data, fetches, AsyncFetchUsageData(fetches),
                         LookupApi(users_data, AsyncFetchUsageData(fetches), fetches, env))
    ELSE LoadFromDaily(st, ExtractedEmails(daily_data, GetUsageEvents(TeamEvents(env.team))),
                       daily_data, env)

\* load_data, dashboard.py:92-284 (force_refresh is False in every call of run):
\* none means it returned (None, None)
LoadData(d, st, env) ==
    IF st.cache_fresh /\ st.users_file.exists /\ st.usage_file.exists
    THEN [none |-> FALSE, users_data |-> st.users_file.data, usage_data |-> st.usage_file.data,
          storage |-> st, api_client |-> d.api_client, api |-> NoApi]
    ELSE LoadFetched(st, GetTeamMembers(env.members),
                     UserFetches(GetTeamMembers(env.members), env),
                     GetDailyUsageData(TeamDaily(env.team)), env)

DashResult(status) == [call |-> "dashboard", status |-> status]

\* run, dashboard.py:1143-1252, after the data is loaded: the page is rendered unless a
\* table is missing or the usage table is empty (line 1176); with an api_client the
\* trends section requests the daily usage (lines 1213-1215)
Rendered(d, a, env) ==
    IF d.users_data.isNone \/ d.usage_data.isNone \/ IsEmpty(d.usage_data)
    THEN [result |-> DashResult("no_data"), api |-> a]
    ELSE [result |-> DashResult("rendered"),
          api |-> IF d.api_client
                  THEN [a EXCEPT !.endpoints = @ \cup {DailyEndpoint},
                                 !.failed = @ \cup (IF env.team = "failed"
                                                    THEN {DailyEndpoint} ELSE {})]
                  ELSE a]

----------------------------------------------------------------------------
(* Specification Spec: a process with one CursorDataService and one         *)
(* dashboard session over one data directory.  Its entry points are         *)
(* fetch_all_data on the service, the CLI's main, and the dashboard's run.  *)

Init ==
    /\ config \in {[CURSOR_API_KEY |-> k] : k \in BOOLEAN}
    /\ svc = FreshService
    /\ dp = FreshProcessor
    /\ storage = EmptyStorage
    /\ api = NoApi
    /\ result = NoResult
    /\ cycle = NoCycle
    /\ dash = FreshDashboard
    /\ now = 0
    /\ inp = << >>
    /\ out = NoOut
    /\ pc = "idle"

\* the process is between calls and the run has calls left
CanCall == pc = "idle" /\ now < MaxCalls

CliResult(command, status) == [call |-> "cli", command |-> command, status |-> status]

\* the service, its processor and the data directory after fetch_all_data produced r;
\* through the CLI (run_full_sync, cli.py:119-140) the caller sees the status only
ServiceBecomes(r, cli) ==
    /\ svc' = r.svc
    /\ dp' = r.dp
    /\ storage' = r.storage
    /\ cycle' = r.cycle
    /\ api' = r.api
    /\ result' = IF cli THEN CliResult("sync", r.result.status) ELSE r.result

\* service.fetch_all_data(force_refresh)
FetchAllData(force_refresh, env) ==
    /\ CanCall
    /\ now' = now + 1
    /\ ServiceBecomes(FetchAllDataCall([svc |-> svc, dp |-> dp, storage |-> storage,
                                        cycle |-> cycle], force_refresh, env, now + 1),
                      FALSE)
    /\ UNCHANGED <<config, dash, inp, out, pc>>

\* main of cli.py (lines 192-232) with the command sync (run_full_sync, lines
\* 119-140), test (test_connection, lines 25-46) or status (show_status, lines
\* 142-168); every command makes its own CursorDataService
CliMain(command, env) ==
    /\ CanCall
    /\ now' = now + 1
    /\ IF ~ConfigValid(config)
       THEN /\ result' = CliResult(command, "config_error")
            /\ api' = NoApi
            /\ UNCHANGED <<svc, dp, storage, cycle>>
       ELSE IF command = "sync"
       THEN ServiceBecomes(FetchAllDataCall([svc |-> FreshService, dp |-> FreshProcessor,
                                             storage |-> storage, cycle |-> cycle],
                                            TRUE, env, now + 1),
                           TRUE)
       ELSE IF command = "test"
       THEN /\ svc' = [FreshService EXCEPT !.api_client = TRUE]
            /\ dp' = FreshProcessor
            /\ api' = Requested(MembersEndpoint, env.members)
            /\ result' = CliResult(command, "success")
            /\ UNCHANGED <<storage, cycle>>
       ELSE /\ svc' = FreshService
            /\ dp' = FreshProcessor
            /\ api' = NoApi
            /\ result' = CliResult(command, "success")
            /\ UNCHANGED <<storage, cycle>>
    /\ UNCHANGED <<config, dash, inp, out, pc>>

\* the session and the data directory after a run that showed r from the session d
DashboardBecomes(d, st, r) ==
    /\ result' = r.result
    /\ api' = r.api
    /\ dash' = d
    /\ storage' = st

\* dashboard.py:1160-1176: the session keeps the processed tables
DataLoaded(l, u, g) ==
    [api_client |-> l.api_client, data_loaded |-> TRUE,
     users_data |-> u.ret, usage_data |-> g.ret, data_processor |-> Processor(u, g)]

RunLoaded(d1, l, env) == DashboardBecomes(d1, l.storage, Rendered(d1, l.api, env))

\* dashboard.py:1153-1176 after load_data returned l
RunLoad(d0, l, env) ==
    IF ~l.none /\ Len(l.users_data) > 0 /\ Len(l.usage_data) > 0
    THEN RunLoaded(DataLoaded(l, ProcessUsersData(l.users_data, d0.data_processor.users_df),
                              ProcessUsageData(l.usage_data, d0.data_processor.usage_df)),
                   l, env)
    ELSE /\ result' = DashResult("load_failed")
         /\ api' = l.api
         /\ dash' = [d0 EXCEPT !.api_client = l.api_client]
         /\ storage' = l.storage

RunSession(d0, env) ==
    IF d0.data_loaded
    THEN DashboardBecomes(d0, storage, Rendered(d0, NoApi, env))
    ELSE RunLoad(d0, LoadData(d0, storage, env), env)

\* run of dashboard.py (lines 1143-1252); refresh_clicked is the Refresh Data button
\* of the sidebar (lines 295-297), which clears data_loaded and reruns
DashboardRun(refresh_clicked, env) ==
    /\ CanCall
    /\ now' = now + 1
    /\ IF ~ConfigValid(config)
       THEN /\ result' = DashResult("config_error")
            /\ api' = NoApi
            /\ UNCHANGED <<dash, storage>>
       ELSE RunSession(IF refresh_clicked THEN [dash EXCEPT !.data_loaded = FALSE] ELSE dash,
                       env)
    /\ UNCHANGED <<config, svc, dp, cycle, inp, out, pc>>

\* more than REFRESH_INTERVAL_MINUTES pass since cache.json was written
\* (storage.py:103-116, config.py:17)
CacheExpires ==
    /\ pc = "idle"
    /\ storage.cache_fresh
    /\ storage' = [storage EXCEPT !.cache_fresh = FALSE]
    /\ UNCHANGED <<config, svc, dp, api, result, cycle, dash, now, inp, out, pc>>

CliCommands == {"sync", "test", "status"}

\* the answers each call can get: those of the requests it issues
FetchEnvs(force_refresh) ==
    IF ~force_refresh /\ storage.cache_fresh THEN NoAnswers ELSE EnvsFor(config)

CliEnvs(command) ==
    IF ~ConfigValid(config) \/ command = "status" THEN NoAnswers
    ELSE IF command = "test" THEN MemberAnswers(config)
    ELSE EnvsFor(config)

DashEnvs(refresh_clicked) ==
    IF ~ConfigValid(config) THEN NoAnswers
    ELSE IF (dash.data_loaded /\ ~refresh_clicked)
            \/ (storage.cache_fresh /\ storage.users_file.exists /\ storage.usage_file.exists)
    THEN TeamAnswers(config)
    ELSE EnvsFor(config)

Next ==
    \/ CanCall /\ \E force_refresh \in BOOLEAN :
            \E env \in FetchEnvs(force_refresh) : FetchAllData(force_refresh, env)
    \/ CanCall /\ \E command \in CliCommands :
            \E env \in CliEnvs(command) : CliMain(command, env)
    \/ CanCall /\ \E refresh_clicked \in BOOLEAN :
            \E env \in DashEnvs(refresh_clicked) : DashboardRun(refresh_clicked, env)
    \/ CacheExpires

Spec == Init /\ [][Next]_vars

----------------------------------------------------------------------------
(* Claims about a refresh (specification Spec).                             *)

IdsOf(rows, field) == {rows[i][field] : i \in 1..Len(rows)}

\* the last call fetched fresh data through the service's fetch_all_data
FreshFetch == result.call = "fetch_all_data" /\ api.fetched

\* C3: a refresh (fetch_all_data) in which one source yields no rows (the user list is
\* empty, or the per-user usage map is empty) still completes: it does not return
\* status error.
C3_EmptySourceStillCompletes ==
    (FreshFetch /\ (Len(api.users_data) = 0 \/ Len(api.usage_data) = 0)) =>
        result.status = "success"

\* C4: in the per-user usage fetch of a refresh, by the service or by the dashboard's
\* load_data, when the fetch of one user's usage fails while another user's succeeds,
\* the failing users get no entry, every other user of the list has its entry in the
\* usage batch, and the refresh is not aborted.
C4_FailedUserFetchKeepsOthers ==
    (/\ api.fetched
     /\ api.raised # {}
     /\ IdsOf(api.users_data, "id") \ api.raised # {}) =>
        /\ result.status \notin {"error", "load_failed"}
        /\ IdsOf(api.usage_data, "user_id") = IdsOf(api.users_data, "id") \ api.raised

\* C5: when CURSOR_API_KEY is unset no API request is issued, whichever entry point
\* (CLI main, dashboard run, fetch_all_data) the run went through.
C5_NoRequestWithoutKey == ~ConfigValid(config) => api.endpoints = {}

\* C6: after a refresh cycle of the service the held users table, usage table and
\* analytics summary come from that cycle's raw batch only: every user of the users
\* tables (service and processor) is a user of the cycle's users batch, every user of
\* the usage tables is a user of the cycle's usage batch, and the summary is the one
\* computed from the cycle's usage batch.
C6_HeldTablesFromThisCycle ==
    (result.call = "fetch_all_data" /\ result.status = "success") =>
        /\ IdsOf(svc.users_df.rows, "id") \subseteq IdsOf(cycle.users_data, "id")
        /\ IdsOf(dp.users_df.rows, "id") \subseteq IdsOf(cycle.users_data, "id")
        /\ IdsOf(svc.usage_df.rows, "user_id") \subseteq IdsOf(cycle.usage_data, "user_id")
        /\ IdsOf(dp.usage_df.rows, "user_id") \subseteq IdsOf(cycle.usage_data, "user_id")
        /\ LET stats == ExportSummaryStats(ProcessUsageData(cycle.usage_data, DFNone).usage_df)
           IN  IF result.from_cache THEN svc.analytics_data = stats
               ELSE svc.analytics_data.stats = stats

----------------------------------------------------------------------------
(* One CursorDataService and its data directory (specification SpecCache):  *)
(* calls of fetch_all_data with every answer of the API and every outcome   *)
(* of the files of the data directory.                                      *)

\* what can happen to the files during a call that stores, and during one that loads
SaveOutcomes == {"ok", "users_unwritable", "cache_unwritable"}
LoadOutcomes == {"ok", "users_unreadable"}

\* the answers and file outcomes a call can meet: a call answered from the cache
\* issues no request and writes no file, a fetch reads no stored batch
CacheEnvs(force_refresh) ==
    IF ~force_refresh /\ storage.cache_fresh
    THEN {[e EXCEPT !.disk = d] : e \in NoAnswers, d \in LoadOutcomes}
    ELSE {[e EXCEPT !.disk = d] : e \in EnvsFor(config), d \in SaveOutcomes}

NextCache ==
    \/ CanCall /\ \E force_refresh \in BOOLEAN :
            \E env \in CacheEnvs(force_refresh) : FetchAllData(force_refresh, env)
    \/ CacheExpires

SpecCache == Init /\ [][NextCache]_vars

\* one of the stored raw batches is absent or empty
StoredBatchMissing ==
    Len(storage.users_file.data) = 0 \/ Len(storage.usage_file.data) = 0

\* the service, its processor and the data directory as a call finds them
ServiceState == [svc |-> svc, dp |-> dp, storage |-> storage, cycle |-> cycle]

\* r is an answer from the data directory: no request, no file written, and the
\* batch of the cycle is the stored one
AnsweredFromCache(r) ==
    /\ r.api = NoApi
    /\ r.storage = storage
    /\ \/ r.result = ErrorResult("No cached data available")
       \/ /\ ~StoredBatchMissing
          /\ r.result.status = "success"
          /\ r.result.from_cache
          /\ r.cycle = [ran |-> TRUE, users_data |-> storage.users_file.data,
                        usage_data |-> storage.usage_file.data]
    /\ StoredBatchMissing => r.result = ErrorResult("No cached data available")

\* C28: fetch_all_data(force_refresh=False) issues no API request when the cache is
\* valid: it answers from the stored raw batch, or returns the error 'No cached data
\* available' when the stored users or usage batch is absent or empty; and
\* fetch_all_data(force_refresh=True) always fetches from the API, whatever the cache
\* state. Stated of the call in every state in which the run makes one.
C28_CacheServedUnlessForced ==
    CanCall =>
        /\ storage.cache_fresh =>
                \A env \in CacheEnvs(FALSE) :
                    AnsweredFromCache(FetchAllDataCall(ServiceState, FALSE, env, now + 1))
        /\ \A env \in CacheEnvs(TRUE) :
                FetchAllDataCall(ServiceState, TRUE, env, now + 1).api.fetched

\* a call was answered from a valid cache without a request
C28_Witness ==
    /\ result.call = "fetch_all_data"
    /\ result.status = "success"
    /\ result.from_cache
    /\ api = NoApi
    /\ storage.cache_fresh
    /\ now = 2

\* a call with a valid cache found no stored users batch
C28_WitnessNoCachedData ==
    /\ result = ErrorResult("No cached data available")
    /\ storage.cache_fresh
    /\ ~storage.users_file.exists

\* C29: fetch_all_data never raises: for every outcome of the fetches, the processing
\* and the storage it returns a record whose status is 'success' or 'error', and
\* last_refresh is changed only by a call that fetched fresh data and returned
\* 'success'; a failed or cache-served call leaves it as it was.
C29_LastRefreshOnlyOnFreshSuccess ==
    [][/\ result'.call = "fetch_all_data" => result'.status \in {"success", "error"}
       /\ svc'.last_refresh # svc.last_refresh =>
            /\ result'.call = "fetch_all_data"
            /\ result'.status = "success"
            /\ ~result'.from_cache
            /\ api'.fetched
            /\ svc'.last_refresh = now']_vars

\* a failed fetch after a successful one left last_refresh at the first call's time
C29_Witness ==
    /\ now = 2
    /\ result.call = "fetch_all_data"
    /\ result.status = "error"
    /\ api.fetched
    /\ svc.last_refresh = 1

\* a cache-served call after a successful fetch left last_refresh alone
C29_WitnessCacheServed ==
    /\ now = 2
    /\ result.status = "success"
    /\ result.from_cache
    /\ svc.last_refresh = 1

\* C30: whenever the cache is valid, the stored users file and usage file hold a raw
\* batch: the cache timestamp is written only in a cycle in which save_users_data
\* and save_usage_data succeeded, so a fresh cache marker is never paired with a
\* missing stored batch.
C30_ValidCacheHasStoredBatch ==
    storage.cache_fresh => storage.users_file.exists /\ storage.usage_file.exists

====
